---- MODULE Spec2Model ----
(***************************************************************************)
(* Model of the nonlinear correlation-solving core of pyrestoolbox.py:     *)
(* bisect_solve, gas_z (z_lin / zdak / z_hy), PonZ2P, pbub, Rsbub and the  *)
(* bubble-point reconciliation of make_bot.                                *)
(*                                                                         *)
(* Arithmetic.  The program computes in IEEE doubles; the model computes   *)
(* in fixed point.  A real number v is the integer v * One, divisions      *)
(* round to the lattice (as a double division rounds to the nearest        *)
(* double), and the IEEE specials the code can produce (a division by      *)
(* zero giving inf, inf - inf giving NaN) are carried in explicit fields.  *)
(* The empirical correlations (Eq2p7, the Hall-Yarborough residual, the    *)
(* bubble-point families) need exp, log and real powers; each is modelled  *)
(* by a fixed-point polynomial of the same shape, stated at its definition.*)
(* Control flow, iteration limits, tests and returned values follow the    *)
(* source line by line.                                                    *)
(***************************************************************************)
EXTENDS Integers, Sequences, FiniteSets, TLC

VARIABLES op,   \* the library call in progress ("idle" before any call)
          bis,  \* frame of bisect_solve: its locals and its position
          gz,   \* frame of gas_z and of the algorithm it dispatches to
          pz,   \* frame of PonZ2P
          rs,   \* frame of Rsbub
          mb,   \* frame of make_bot
          tp,   \* frame of gas_tc_pc and of the selector handling of its callers
          prev  \* what the caller remembers of the calls that have ended

vars == <<op, bis, gz, pz, rs, mb, tp, prev>>

---------------------------------------------------------------------------
(* Fixed-point helpers *)

\* The real number 1.0 on the fixed-point lattice
One == 1000

Abs(x) == IF x < 0 THEN -x ELSE x

\* The integer nearest to a / b (b # 0), halves away from zero
Div(a, b) ==
    LET q == (2 * Abs(a) + Abs(b)) \div (2 * Abs(b))
    IN  IF (a < 0) = (b < 0) THEN q ELSE -q

\* Product and quotient of two lattice values, rounded to the lattice as a
\* double operation rounds to the nearest double
Mul(a, b) == Div(a * b, One)
Quo(a, b) == Div(a * One, b)

---------------------------------------------------------------------------
(* Bounds of the explored inputs *)

\* upper end of the brackets handed to bisect_solve directly
MaxX == 160
\* largest tolerance handed to bisect_solve above the lattice unit
MaxRtol == 2

---------------------------------------------------------------------------
(* gas_z: the arithmetic of the three Z-factor algorithms *)

\* The gas description is fixed at a reduced temperature tr = 1.5
\* ((degf + 460) / tc, lines 312, 343, 395); pressures are reduced pressures
\* p / pc on the lattice.
Tr == 1500

\* The reduced pressures the callers choose from: ordinary ones, one at which
\* the DAK iteration cycles between neighbouring lattice values, one at which
\* its slope estimate divides by zero.
PrSet == {500, 1000, 1381, 1800, 3000}

\* Pressure arguments: a scalar, or a sequence of 1..MaxLen pressures
MaxLen == 2

SeqsUpTo(n) == UNION {[1..k -> PrSet] : k \in 1..n}

PArgs == {[shape |-> "scalar", vals |-> <<v>>] : v \in PrSet}
            \cup {[shape |-> "seq", vals |-> q] : q \in SeqsUpTo(MaxLen)}

\* Line 289: np.asarray(p).  A scalar becomes a 0-d array, a sequence a 1-d
\* array; both have .size = number of values.
Size(p) == Len(p.vals)

\* Lines 335-339, 386-390: ps = [p] when p.size == 1, else p.tolist().
\* In ps = [p] the one element is the array itself and keeps its shape: a 0-d
\* array computes like a scalar, a 1-element array gives 1-element arrays.
PsOf(p) ==
    IF Size(p) = 1
    THEN << [sh |-> IF p.shape = "scalar" THEN "scalar" ELSE "array1",
             v |-> p.vals[1]] >>
    ELSE [k \in 1..Len(p.vals) |-> [sh |-> "scalar", v |-> p.vals[k]]]

\* Lines 307-323: z_lin, one closed-form expression evaluated on the whole
\* array.  The expression (exponentials and a real power of y) is modelled at
\* tr = 1.5 by its quadratic fit in pr: z = 1 - 0.105 pr + 0.013 pr^2.
ZLinValue(pr) == One + Mul(-105, pr) + Mul(13, Mul(pr, pr))

z_lin(p) ==
    [kind |-> p.shape, vals |-> [k \in 1..Len(p.vals) |-> ZLinValue(p.vals[k])],
     fin |-> [k \in 1..Len(p.vals) |-> TRUE]]

\* Lines 329-331: Eq2p7 at tr = 1.5.  The coefficient of rhor is
\* a1 + a2/tr + a3/tr^3 + a4/tr^4 + a5/tr^5 = -0.549, that of rhor^2 is
\* a6 + a7/tr + a8/tr^2 plus the leading part a10/tr^3 of the exponential
\* term = 0.321; the terms of order rhor^5 and higher are dropped.
Eq2p7(pr, tr, rhor) == One + Mul(-549, rhor) + Mul(321, Mul(rhor, rhor))

\* Lines 348, 351: rhor = 0.27 * pr / (tr * z)
Rhor(pr, tr, z) == Quo(Mul(270, pr), Mul(tr, z))

\* Lines 342-361: the locals of zdak when the while loop is first tested.
\* fp tells which locals are finite doubles:
\*   "fin"  all of them
\*   "minf" m is inf or NaN (drhor2 was 0), z2 is still finite
\*   "nan"  z2 is NaN (computed from a non-finite rhor2)
DakStart(pr) ==
    LET z0     == One
        rhor   == Rhor(pr, Tr, z0)
        z2a    == Eq2p7(pr, Tr, rhor)
        error1 == z2a - z0
    IN  IF Mul(Tr, z2a) = 0
        THEN [pr |-> pr, z |-> z2a, z2 |-> 0, rhor |-> rhor, rhor2 |-> 0,
              error1 |-> error1, error2 |-> 0, m |-> 0, ii |-> 0, fp |-> "nan"]
        ELSE LET rhor2  == Rhor(pr, Tr, z2a)
                 z2b    == Eq2p7(pr, Tr, rhor2)
                 error2 == z2b - z2a
                 drhor2 == rhor2 - rhor
             IN  [pr |-> pr, z |-> z2a, z2 |-> z2b, rhor |-> rhor, rhor2 |-> rhor2,
                  error1 |-> error1, error2 |-> error2,
                  m |-> IF drhor2 = 0 THEN 0 ELSE Quo(error2 - error1, drhor2),
                  ii |-> 0, fp |-> IF drhor2 = 0 THEN "minf" ELSE "fin"]

\* Line 362: while abs(z2 - z) > 0.0001 (a comparison with NaN is False)
DakContinue(d) == d.fp # "nan" /\ Abs(d.z2 - d.z) * 10000 > One

\* Lines 363-373: one pass through the loop body.  (m * rhor2 - error2) / m is
\* evaluated as rhor2 - error2 / m with the quotient rounded to the lattice;
\* with m = 0 or m non-finite the new rhor2, and so z2, is not finite.
DakBody(d) ==
    IF d.fp = "minf" \/ d.m = 0
    THEN [d EXCEPT !.rhor = d.rhor2, !.z = d.z2, !.error1 = d.error2,
                   !.fp = "nan", !.ii = d.ii + 1]
    ELSE LET rhor2  == d.rhor2 - Quo(d.error2, d.m)
             z2     == Eq2p7(d.pr, Tr, rhor2)
             error2 == z2 - d.z2
             drhor2 == rhor2 - d.rhor2
         IN  [d EXCEPT !.rhor = d.rhor2, !.z = d.z2, !.error1 = d.error2,
                       !.rhor2 = rhor2, !.z2 = z2, !.error2 = error2,
                       !.m = IF drhor2 = 0 THEN d.m ELSE Quo(error2 - d.error2, drhor2),
                       !.fp = IF drhor2 = 0 THEN "minf" ELSE "fin",
                       !.ii = d.ii + 1]

\* Line 374: if ii > 100
DakHalted(d) == d.ii > 100

\* Lines 362-376 run to their end for one pressure: the z appended, or the
\* message of line 375.  DakIter[d, k] is the loop run for up to 2^k passes
\* (at most 101 are made); halted is set by the pass that makes ii > 100
DakRun(d) ==
    LET DakIter[dd \in [pr : Int, z : Int, z2 : Int, rhor : Int, rhor2 : Int, error1 : Int,
                       error2 : Int, m : Int, ii : Int, fp : {"fin", "minf", "nan"}],
                k \in 0..7] ==
            IF k = 0
            THEN IF DakHalted(dd) \/ ~DakContinue(dd) THEN dd ELSE DakBody(dd)
            ELSE DakIter[DakIter[dd, k - 1], k - 1]
        e == DakIter[d, 7]
    IN  IF DakHalted(e) THEN [kind |-> "str", v |-> 0] ELSE [kind |-> "num", v |-> e.z]

\* Lines 399-415 at tr = 1.5, as polynomials in y.  alpha = 0.0357;
\* (y + y^2 + y^3 - y^4) / (1 - y)^3 = y + 4 y^2 + 10 y^3 + ..., the y^2 term
\* of line 406 has coefficient 6.859, the real power of line 407 is dropped.
AlphaPpr(ppr) == Mul(36, ppr)
fy(y, ppr) == -AlphaPpr(ppr) + y + Mul(-2859, Mul(y, y)) + Mul(10000, Mul(Mul(y, y), y))
dfydy(y) == One + Mul(-5718, y) + Mul(30000, Mul(y, y))

\* Lines 418-420
HyStart(ppr) == [y |-> 1, f |-> fy(1, ppr), i |-> 0, brk |-> FALSE]

\* Line 421: while abs(f) > 1e-8
HyContinue(h) == ~h.brk /\ Abs(h.f) * (100000000 \div One) > 1

\* Lines 422-427: y -= f*dfydy(y); the loop is left by break when i > 99
HyBody(h, ppr) ==
    LET y == h.y - Mul(h.f, dfydy(h.y))
    IN  [y |-> y, f |-> fy(y, ppr), i |-> h.i + 1, brk |-> h.i + 1 > 99]

\* Line 428: alpha * ppr / y (inf or NaN when y = 0)
HyValue(h, ppr) == IF h.y = 0 THEN 0 ELSE Quo(AlphaPpr(ppr), h.y)

\* Lines 418-428 run to their end for one pressure.  HyIter[h, ppr, k] is the
\* loop of lines 421-427 run for up to 2^k passes (at most 100 are made)
HyRun(h, ppr) ==
    LET HyIter[hh \in [y : Int, f : Int, i : Int, brk : BOOLEAN], pp \in Int, k \in 0..7] ==
            IF k = 0
            THEN IF ~HyContinue(hh) THEN hh ELSE HyBody(hh, pp)
            ELSE HyIter[HyIter[hh, pp, k - 1], pp, k - 1]
        e == HyIter[h, ppr, 7]
    IN  [kind |-> IF e.y = 0 THEN "nonfinite" ELSE "num", v |-> HyValue(e, ppr)]

\* gas_z(p, zmethod) for one scalar pressure: a number, a non-finite double,
\* or the message string of line 375
GasZScalar(zmethod, pr) ==
    CASE zmethod = "LIN" -> [kind |-> "num", v |-> ZLinValue(pr)]
      [] zmethod = "DAK" -> DakRun(DakStart(pr))
      [] zmethod = "HY"  -> HyRun(HyStart(pr), pr)

---------------------------------------------------------------------------
(* Sequences of calls *)

\* The library is a module of functions (lines 76-1506) with no module-level
\* variable and no mutable default argument: a call works on its own frame, and
\* a frame is built from the arguments alone.  A frame that has ended is left
\* as it is below, so that a call that read it would be seen to.

\* n counts the calls that have ended; op, sig and res are the function, the
\* arguments and the result of the first of them
NoCall == [n |-> 0, op |-> "idle", sig |-> <<>>, res |-> <<>>]

\* The arguments of a call of make_bot and of a call of gas_tc_pc or of one of
\* its callers, read from the frame
MbSig(m) ==
    [pb |-> m.arg.pb, rsb |-> m.arg.rsb, pi |-> m.pi, pmax |-> m.pmax, nrows |-> m.nrows]

TpSig(t) ==
    [fn |-> t.fn, zsel |-> t.zsel, csel |-> t.csel, psel |-> t.psel,
     sg |-> t.sg, comp |-> t.comp, tc |-> t.tc, pcrit |-> t.pcrit]

\* The arguments of the call in progress
Sig ==
    CASE op = "bisect_solve" ->
             [f |-> bis.f, args |-> bis.args, xmin |-> bis.xmin0, xmax |-> bis.xmax0,
              rtol |-> bis.rtol]
      [] op = "gas_z" -> [zmethod |-> gz.zmethod, p |-> gz.p]
      [] op = "PonZ2P" ->
             [zmethod |-> pz.zmethod, ptrue |-> pz.ptrue, rtol |-> pz.rtol,
              single_p |-> pz.single_p]
      [] op = "Rsbub" -> [pbmethod |-> rs.pbmethod, pb |-> rs.n.pb, rsb0 |-> rs.rsb0]
      [] op = "make_bot" -> MbSig(mb)
      [] op \in {"gas_tc_pc", "selectors"} -> TpSig(tp)
      [] OTHER -> <<>>

\* The call in progress has returned or raised (sys.exit ends the process, and
\* no call follows it)
CallOver ==
    CASE op = "bisect_solve" -> bis.pc \in {"returned", "raised"}
      [] op = "gas_z" -> gz.pc = "returned"
      [] op = "PonZ2P" -> pz.pc \in {"returned", "raised"}
      [] op = "Rsbub" -> rs.pc \notin {"idle", "while", "exit"}
      [] op = "make_bot" -> mb.pc \notin {"idle", "while", "rows", "exit"}
      [] op = "gas_tc_pc" -> tp.pc = "returned"
      [] op = "selectors" -> tp.pc = "dispatched"
      [] OTHER -> FALSE

\* What the call has returned or raised, with the locals it ended with
Res ==
    CASE op = "bisect_solve" -> <<bis>>
      [] op = "gas_z" -> <<gz>>
      [] op = "PonZ2P" -> <<pz, bis>>
      [] op = "Rsbub" -> <<rs.pc, rs.ret>>
      [] op = "make_bot" -> <<mb>>
      [] op \in {"gas_tc_pc", "selectors"} -> <<tp>>
      [] OTHER -> <<>>

\* The call the caller may make between its first call and the repetitions of
\* it.  After a first call of make_bot or Rsbub it is
\* make_bot(pi = 3500, pb = 3000, rsb = 500, pmax = 4000, nrows = 5), a call
\* that reconciles pb with rsb and so computes a scale factor; after any other
\* first call it is bisect_solve(37, f, 0, MaxX, 0) with f(c, x) = x - c.
Interposed ==
    IF prev.op \in {"make_bot", "Rsbub"}
    THEN [fn |-> "make_bot",
          sig |-> [pb |-> 3000, rsb |-> 500, pi |-> 3500, pmax |-> 4000, nrows |-> 5]]
    ELSE [fn |-> "bisect_solve",
          sig |-> [f |-> "inc", args |-> [c |-> 37, zmethod |-> "LIN"],
                   xmin |-> 0, xmax |-> MaxX, rtol |-> 0]]

\* The caller's program: any first call; after it, a repetition of it with the
\* same arguments, either at once or after the interposed call
MayCall(fn) ==
    \/ prev.n = 0
    \/ fn = prev.op
    \/ prev.n = 1 /\ fn = Interposed.fn

Asks(fn, sig) ==
    \/ prev.n = 0
    \/ fn = prev.op /\ sig = prev.sig
    \/ prev.n = 1 /\ fn = Interposed.fn /\ sig = Interposed.sig

\* The caller repeats a call of the function fn of lines 268-712
AsksFn(fn) == prev.n = 0 \/ prev.op # "selectors" \/ fn = prev.sig.fn

\* The call in progress is a repetition of the first call
Repeated == prev.n >= 1 /\ op = prev.op /\ Sig = prev.sig

\* A call that is over returns control to the caller, who keeps the arguments
\* and the result of its first call.  The caller's last call is a repetition.
CallReturns ==
    /\ CallOver
    /\ prev.n = 0 \/ (prev.n = 1 /\ ~Repeated)
    /\ prev' = IF prev.n = 0
               THEN [n |-> 1, op |-> op, sig |-> Sig, res |-> Res]
               ELSE [prev EXCEPT !.n = 2]
    /\ op' = "idle"
    /\ UNCHANGED <<bis, gz, pz, rs, mb, tp>>

---------------------------------------------------------------------------
(* bisect_solve *)

\* the iteration limit of bisect_solve ("if iternum > 99")
MaxBisectIter == 99

\* The error functions handed to bisect_solve; args.c is the constant of the
\* function (the root c, or ponz), args.zmethod the Z-factor algorithm.
\*   "inc": f(c, x) = x - c, the linear test function of the specification
\*   "dec": f(c, x) = c - x, the same root approached from a falling error
\*   "PonZ2P_err": lines 636-639, (p - ponz * zee) / p with zee = gas_z(p)
ErrFn(f, args, x) ==
    CASE f = "inc" -> x - args.c
      [] f = "dec" -> args.c - x
      [] f = "PonZ2P_err" -> Quo(x - Mul(args.c, GasZScalar(args.zmethod, x).v), x)

\* f raises: PonZ2P_err multiplies ponz by the message string of zdak, or
\* works on a non-finite Z
ErrRaises(f, args, x) ==
    f = "PonZ2P_err" /\ (x = 0 \/ GasZScalar(args.zmethod, x).kind # "num")

\* Lines 77-80: the state of bisect_solve when it first reaches the while test.
\* mid_val is not assigned before the first iteration (bound = FALSE).
BisectEnter(f, args, xmin, xmax, rtol) ==
    IF ErrRaises(f, args, xmax) \/ ErrRaises(f, args, xmin)
    THEN [pc |-> "raised", f |-> f, args |-> args, rtol |-> rtol,
          xmin |-> xmin, xmax |-> xmax, xmin0 |-> xmin, xmax0 |-> xmax,
          err_hi |-> 0, err_lo |-> 0, iternum |-> 0, err_mid |-> One,
          mid_val |-> 0, mid_eval |-> 0, bound |-> FALSE]
    ELSE
    [pc |-> "loop", f |-> f, args |-> args, rtol |-> rtol,
     xmin |-> xmin, xmax |-> xmax, xmin0 |-> xmin, xmax0 |-> xmax,
     err_hi |-> ErrFn(f, args, xmax), err_lo |-> ErrFn(f, args, xmin),
     iternum |-> 0, err_mid |-> One, mid_val |-> 0, mid_eval |-> 0,
     bound |-> FALSE]

BisectIdle ==
    [pc |-> "idle", f |-> "inc", args |-> [c |-> 0, zmethod |-> "LIN"], rtol |-> 0,
     xmin |-> 0, xmax |-> 0, xmin0 |-> 0, xmax0 |-> 0,
     err_hi |-> 0, err_lo |-> 0, iternum |-> 0, err_mid |-> One,
     mid_val |-> 0, mid_eval |-> 0, bound |-> FALSE]

\* Line 81: the while test
BisectContinue(b) == Abs(b.err_mid) > b.rtol

\* Line 82
MidPoint(b) == Div(b.xmax + b.xmin, 2)

\* BisectUpdate with the averaging of line 91 assigned to xmin
BisectUpdate_nudgesXmin(b, mid, e) ==
    IF b.err_hi * e < 0
    THEN [b EXCEPT !.xmin = Div(mid + b.xmax, 2), !.err_lo = e, !.err_mid = e,
                   !.mid_val = Div(mid + b.xmax, 2), !.mid_eval = mid,
                   !.iternum = b.iternum + 1, !.bound = TRUE]
    ELSE [b EXCEPT !.xmax = mid, !.err_hi = e, !.err_mid = e,
                   !.mid_val = mid, !.mid_eval = mid,
                   !.iternum = b.iternum + 1, !.bound = TRUE]

\* Lines 88-94: the update of the bracket after the evaluation at mid.
\* mid_eval records the point at which err_mid was evaluated (line 83).
BisectUpdate(b, mid, e) ==
    IF b.err_hi * e < 0
    THEN [b EXCEPT !.xmin = mid, !.err_lo = e, !.err_mid = e,
                   !.mid_val = Div(mid + b.xmax, 2), !.mid_eval = mid,
                   !.iternum = b.iternum + 1, !.bound = TRUE]
    ELSE [b EXCEPT !.xmax = mid, !.err_hi = e, !.err_mid = e,
                   !.mid_val = mid, !.mid_eval = mid,
                   !.iternum = b.iternum + 1, !.bound = TRUE]

\* BisectBody with the limit tested one iteration late (iternum > 100)
BisectBody_lateExit(b) ==
    LET mid == MidPoint(b)
        e   == ErrFn(b.f, b.args, mid)
    IN  IF ErrRaises(b.f, b.args, mid)
        THEN [b EXCEPT !.pc = "raised", !.mid_val = mid, !.mid_eval = mid,
                       !.bound = TRUE]
        ELSE
        IF b.iternum + 1 > MaxBisectIter + 1
        THEN [b EXCEPT !.pc = "exit", !.err_mid = e, !.mid_val = mid,
                       !.mid_eval = mid, !.iternum = b.iternum + 1,
                       !.bound = TRUE]
        ELSE BisectUpdate(b, mid, e)

\* One pass through the loop body, lines 82-94, or sys.exit at line 87
BisectBody(b) ==
    LET mid == MidPoint(b)
        e   == ErrFn(b.f, b.args, mid)
    IN  IF ErrRaises(b.f, b.args, mid)
        THEN [b EXCEPT !.pc = "raised", !.mid_val = mid, !.mid_eval = mid,
                       !.bound = TRUE]
        ELSE
        IF b.iternum + 1 > MaxBisectIter
        THEN [b EXCEPT !.pc = "exit", !.err_mid = e, !.mid_val = mid,
                       !.mid_eval = mid, !.iternum = b.iternum + 1,
                       !.bound = TRUE]
        ELSE BisectUpdate(b, mid, e)

\* Line 95: return mid_val, an UnboundLocalError when the loop never ran
BisectLeave(b) ==
    IF b.bound THEN [b EXCEPT !.pc = "returned"]
               ELSE [b EXCEPT !.pc = "raised"]

\* A caller invokes bisect_solve(args, f, xmin, xmax, rtol)
BisectCall ==
    /\ op = "idle"
    /\ MayCall("bisect_solve")
    /\ \E f \in {"inc", "dec"}, c \in 0..MaxX, lo \in {0, MaxX \div 4},
          rtol \in (0..MaxRtol) \cup {One} :
          /\ Asks("bisect_solve", [f |-> f, args |-> [c |-> c, zmethod |-> "LIN"],
                                   xmin |-> lo, xmax |-> MaxX, rtol |-> rtol])
          /\ bis' = BisectEnter(f, [c |-> c, zmethod |-> "LIN"], lo, MaxX, rtol)
    /\ op' = "bisect_solve"
    /\ UNCHANGED <<prev, gz, pz, rs, mb, tp>>

\* Lines 81-91: an iteration that finds the root above mid_val
BisectIterHigher ==
    /\ bis.pc = "loop"
    /\ BisectContinue(bis)
    /\ bis' = BisectBody(bis)
    /\ bis'.pc = "loop"
    /\ bis.err_hi * bis'.err_mid < 0
    /\ UNCHANGED <<prev, op, gz, pz, rs, mb, tp>>

\* Lines 81-87, 92-94: an iteration that finds the root at or below mid_val
BisectIterLower ==
    /\ bis.pc = "loop"
    /\ BisectContinue(bis)
    /\ bis' = BisectBody(bis)
    /\ bis'.pc = "loop"
    /\ ~(bis.err_hi * bis'.err_mid < 0)
    /\ UNCHANGED <<prev, op, gz, pz, rs, mb, tp>>

\* Lines 85-87: the hundredth evaluation ends the process
BisectExit ==
    /\ bis.pc = "loop"
    /\ BisectContinue(bis)
    /\ bis' = BisectBody(bis)
    /\ bis'.pc = "exit"
    /\ UNCHANGED <<prev, op, gz, pz, rs, mb, tp>>

\* Line 83: the evaluation of f at mid_val raises
BisectRaise ==
    /\ bis.pc = "loop"
    /\ BisectContinue(bis)
    /\ bis' = BisectBody(bis)
    /\ bis'.pc = "raised"
    /\ UNCHANGED <<prev, op, gz, pz, rs, mb, tp>>

\* Lines 81, 95: the while test fails and the function returns
BisectReturn ==
    /\ bis.pc = "loop"
    /\ ~BisectContinue(bis)
    /\ bis' = BisectLeave(bis)
    /\ UNCHANGED <<prev, op, gz, pz, rs, mb, tp>>

BisectStep ==
    BisectIterHigher \/ BisectIterLower \/ BisectExit \/ BisectRaise \/ BisectReturn

---------------------------------------------------------------------------
(* gas_z: the call *)

GzIdle ==
    [pc |-> "idle", zmethod |-> "LIN", p |-> [shape |-> "scalar", vals |-> <<0>>],
     single_p |-> FALSE, ps |-> <<>>, k |-> 0, zout |-> <<>>,
     d |-> DakStart(0), h |-> HyStart(0),
     ret |-> [kind |-> "none", vals |-> <<>>, fin |-> <<>>]]

\* Lines 377-380, 429-432: zout[0] for a single pressure, np.array(zout) else
ZResult(g) ==
    IF g.single_p
    THEN [kind |-> IF g.zout[1].sh = "scalar" THEN "scalar" ELSE "seq",
          vals |-> <<g.zout[1].v>>, fin |-> <<g.zout[1].fin>>]
    ELSE [kind |-> "seq", vals |-> [k \in 1..Len(g.zout) |-> g.zout[k].v],
          fin |-> [k \in 1..Len(g.zout) |-> g.zout[k].fin]]

\* Line 375
Sentinel == [kind |-> "str", vals |-> <<>>, fin |-> <<>>]

\* Lines 289-438 with zmethod LIN: gas_z(p, ..., zmethod = 'LIN')
GasZLin ==
    /\ op = "idle"
    /\ MayCall("gas_z")
    /\ \E p \in PArgs :
          /\ Asks("gas_z", [zmethod |-> "LIN", p |-> p])
          /\ gz' = [GzIdle EXCEPT !.pc = "returned", !.zmethod = "LIN", !.p = p,
                                  !.ret = z_lin(p)]
    /\ op' = "gas_z"
    /\ UNCHANGED <<prev, bis, pz, rs, mb, tp>>

\* Lines 289-339, 383-392: gas_z with zmethod DAK or HY, up to the for loop
GasZCall ==
    /\ op = "idle"
    /\ MayCall("gas_z")
    /\ \E p \in PArgs, zm \in {"DAK", "HY"} :
          /\ Asks("gas_z", [zmethod |-> zm, p |-> p])
          /\ gz' = [GzIdle EXCEPT !.pc = "for", !.zmethod = zm, !.p = p,
                                  !.single_p = (Size(p) = 1), !.ps = PsOf(p)]
    /\ op' = "gas_z"
    /\ UNCHANGED <<prev, bis, pz, rs, mb, tp>>

\* Lines 341-361 and 393-420: the next pressure of ps, up to the while test
ZElemStart ==
    /\ gz.pc = "for"
    /\ gz.k < Len(gz.ps)
    /\ gz' = [gz EXCEPT !.pc = "while",
                        !.d = IF gz.zmethod = "DAK" THEN DakStart(gz.ps[gz.k + 1].v) ELSE @,
                        !.h = IF gz.zmethod = "HY" THEN HyStart(gz.ps[gz.k + 1].v) ELSE @]
    /\ UNCHANGED <<prev, op, bis, pz, rs, mb, tp>>

\* Lines 362-373: an iteration of the DAK loop that stays within the limit
ZdakIterate ==
    /\ gz.pc = "while" /\ gz.zmethod = "DAK"
    /\ DakContinue(gz.d)
    /\ ~DakHalted(DakBody(gz.d))
    /\ gz' = [gz EXCEPT !.d = DakBody(gz.d)]
    /\ UNCHANGED <<prev, op, bis, pz, rs, mb, tp>>

\* Lines 362-375: the iteration that exceeds the limit returns the message
ZdakHalt ==
    /\ gz.pc = "while" /\ gz.zmethod = "DAK"
    /\ DakContinue(gz.d)
    /\ DakHalted(DakBody(gz.d))
    /\ gz' = [gz EXCEPT !.d = DakBody(gz.d), !.pc = "returned", !.ret = Sentinel]
    /\ UNCHANGED <<prev, op, bis, pz, rs, mb, tp>>

\* Line 376: zout.append(z)
ZdakAppend ==
    /\ gz.pc = "while" /\ gz.zmethod = "DAK"
    /\ ~DakContinue(gz.d)
    /\ gz' = [gz EXCEPT !.pc = "for", !.k = gz.k + 1,
                        !.zout = Append(gz.zout,
                                  [sh |-> gz.ps[gz.k + 1].sh, v |-> gz.d.z, fin |-> TRUE])]
    /\ UNCHANGED <<prev, op, bis, pz, rs, mb, tp>>

\* Lines 421-427: an iteration of the Hall-Yarborough loop (the hundredth
\* prints the diagnostic and breaks)
ZhyIterate ==
    /\ gz.pc = "while" /\ gz.zmethod = "HY"
    /\ HyContinue(gz.h)
    /\ gz' = [gz EXCEPT !.h = HyBody(gz.h, gz.ps[gz.k + 1].v)]
    /\ UNCHANGED <<prev, op, bis, pz, rs, mb, tp>>

\* Line 428 appending only for a loop that was not left by break
ZhyAppend_dropsBroken ==
    /\ gz.pc = "while" /\ gz.zmethod = "HY"
    /\ ~HyContinue(gz.h)
    /\ gz' = [gz EXCEPT !.pc = "for", !.k = gz.k + 1,
                        !.zout = IF gz.h.brk THEN @
                                 ELSE Append(@, [sh |-> gz.ps[gz.k + 1].sh,
                                                 v |-> HyValue(gz.h, gz.ps[gz.k + 1].v),
                                                 fin |-> gz.h.y # 0])]
    /\ UNCHANGED <<prev, op, bis, pz, rs, mb, tp>>

\* Line 428: zout.append(alpha * ppr / y)
ZhyAppend ==
    /\ gz.pc = "while" /\ gz.zmethod = "HY"
    /\ ~HyContinue(gz.h)
    /\ gz' = [gz EXCEPT !.pc = "for", !.k = gz.k + 1,
                        !.zout = Append(gz.zout,
                                  [sh |-> gz.ps[gz.k + 1].sh,
                                   v |-> HyValue(gz.h, gz.ps[gz.k + 1].v),
                                   fin |-> gz.h.y # 0])]
    /\ UNCHANGED <<prev, op, bis, pz, rs, mb, tp>>

\* Lines 377-380, 429-432: the for loop is exhausted
ZReturn ==
    /\ gz.pc = "for"
    /\ gz.k = Len(gz.ps)
    /\ gz' = [gz EXCEPT !.pc = "returned", !.ret = ZResult(gz)]
    /\ UNCHANGED <<prev, op, bis, pz, rs, mb, tp>>

GasZStep == ZElemStart \/ ZdakIterate \/ ZdakHalt \/ ZdakAppend \/ ZhyIterate
               \/ ZhyAppend \/ ZReturn

---------------------------------------------------------------------------
(* PonZ2P *)

\* The tolerances handed to PonZ2P (0 stands for the default 1e-7, which is
\* below the lattice unit)
PonZRtols == {0, 1}

\* Lines 651-657: poverz = [poverz] when poverz.size == 1, else poverz.tolist()
PonZIdle ==
    [pc |-> "idle", zmethod |-> "LIN", rtol |-> 0, ptrue |-> <<>>,
     poverz |-> <<>>, single_p |-> FALSE, k |-> 0, p |-> <<>>]

\* A caller computes z = gas_z(p) and calls PonZ2P(p / z, zmethod, rtol)
PonZ2PCall ==
    /\ op = "idle"
    /\ MayCall("PonZ2P")
    /\ \E pa \in PArgs, zm \in {"LIN", "DAK", "HY"}, rtol \in PonZRtols :
          /\ Asks("PonZ2P", [zmethod |-> zm, ptrue |-> pa.vals, rtol |-> rtol,
                             single_p |-> (Size(pa) = 1)])
          /\ \A k \in 1..Len(pa.vals) :
                GasZScalar(zm, pa.vals[k]).kind = "num" /\ GasZScalar(zm, pa.vals[k]).v > 0
          /\ pz' = [PonZIdle EXCEPT
                       !.pc = "for", !.zmethod = zm, !.rtol = rtol,
                       !.ptrue = pa.vals,
                       !.poverz = [k \in 1..Len(pa.vals) |->
                                      Quo(pa.vals[k], GasZScalar(zm, pa.vals[k]).v)],
                       !.single_p = (Size(pa) = 1)]
    /\ op' = "PonZ2P"
    /\ UNCHANGED <<prev, bis, gz, rs, mb, tp>>

\* Lines 660-662: bisect_solve(args, PonZ2P_err, ponz*0.2, ponz*1.8, rtol)
PonZ2PSolve ==
    /\ pz.pc = "for"
    /\ pz.k < Len(pz.poverz)
    /\ LET ponz == pz.poverz[pz.k + 1]
       IN  bis' = BisectEnter("PonZ2P_err", [c |-> ponz, zmethod |-> pz.zmethod],
                              Mul(ponz, 200), Mul(ponz, 1800), pz.rtol)
    /\ pz' = [pz EXCEPT !.pc = "solving"]
    /\ UNCHANGED <<prev, op, gz, rs, mb, tp>>

\* Line 662: p.append(...) with the value bisect_solve returned
PonZ2PAppend ==
    /\ pz.pc = "solving"
    /\ bis.pc = "returned"
    /\ pz' = [pz EXCEPT !.pc = "for", !.k = pz.k + 1, !.p = Append(pz.p, bis.mid_val)]
    /\ bis' = BisectIdle
    /\ UNCHANGED <<prev, op, gz, rs, mb, tp>>

\* sys.exit or an exception inside bisect_solve ends PonZ2P as well
PonZ2PAbort ==
    /\ pz.pc = "solving"
    /\ bis.pc \in {"exit", "raised"}
    /\ pz' = [pz EXCEPT !.pc = bis.pc]
    /\ UNCHANGED <<prev, op, bis, gz, rs, mb, tp>>

\* Lines 663-666: return np.array(p), or p[0] for a single value
PonZ2PReturn ==
    /\ pz.pc = "for"
    /\ pz.k = Len(pz.poverz)
    /\ pz' = [pz EXCEPT !.pc = "returned"]
    /\ UNCHANGED <<prev, op, bis, gz, rs, mb, tp>>

PonZ2PStep == PonZ2PSolve \/ PonZ2PAppend \/ PonZ2PAbort \/ PonZ2PReturn

---------------------------------------------------------------------------
(* pbub and Rsbub: the three bubble-point families and their inverses *)

\* The correlations are evaluated for one oil and gas (api = 35, degf = 180,
\* sg_g = sg_sp = 0.8) on a scale model: a solution gas ratio is an integer
\* number of 1/ScfUnit scf/stb, a pressure an integer number of 1/PsiaUnit psia.
ScfUnit == 100
PsiaUnit == 100

\* Line 1069: rsb + 0.5 and rsb - 0.5
HalfScf == ScfUnit \div 2

\* The largest rsb for which np.exp(lnpb) of line 1004 is finite
RsbRange == 30000

\* A double holding a solution gas ratio: finite with value v, finite or
\* infinite beyond RsbRange ("huge"), or NaN
Fin(v) == [fp |-> "fin", v |-> v]
Huge == [fp |-> "huge", v |-> 0]
NaN == [fp |-> "nan", v |-> 0]

\* rsb + dv as a double
RsbAdd(r, dv) ==
    IF r.fp # "fin" THEN r
    ELSE IF r.v + dv > RsbRange THEN Huge ELSE Fin(r.v + dv)

\* Lines 990-992: 18.2 * ((rsb / sg_g)^0.83 * 10^a - 1.4), the power law
\* modelled by the line of slope 4 psia per scf/stb; 18.2 * 1.4 = 25.48.
\* A negative rsb gives a complex power.
pbub_standing(rsb) ==
    CASE rsb.fp = "nan"  -> [fp |-> "nan", v |-> 0]
      [] rsb.fp = "huge" -> [fp |-> "inf", v |-> 0]
      [] rsb.v < 0       -> [fp |-> "cplx", v |-> 0]
      [] OTHER           -> [fp |-> "fin", v |-> 4 * rsb.v - 2548]

\* Lines 1007-1010: 1091.47 * (rsb^0.081465 * k - 0.740152)^5.354891, modelled
\* by the line of slope 9/8 psia per scf/stb through the origin.  The base of
\* the outer power is negative for rsb <= 0, and the power complex.
pbub_velarde(rsb) ==
    CASE rsb.fp = "nan"  -> [fp |-> "nan", v |-> 0]
      [] rsb.fp = "huge" -> [fp |-> "inf", v |-> 0]
      [] rsb.v <= 0      -> [fp |-> "cplx", v |-> 0]
      [] OTHER           -> [fp |-> "fin", v |-> Div(9 * rsb.v, 8)]

\* Lines 994-1005: exp of a quadratic of a cubic in ln(rsb).  It rises from
\* a positive value at small rsb to a maximum and falls again; it is modelled
\* by 5 psia + rsb - rsb^2 / (300 scf/stb), which has its maximum of 80 psia
\* at 150 scf/stb.  Beyond RsbRange np.exp overflows; for infinite rsb the sum
\* Z is inf - inf.  Line 995: rsb <= 0 is sent to pbub_velarde with rsb = 0.
pbub_valko_mccain(rsb) ==
    CASE rsb.fp = "nan"  -> [fp |-> "nan", v |-> 0]
      [] rsb.fp = "huge" -> [fp |-> "inf", v |-> 0]
      [] rsb.v <= 0      -> pbub_velarde(Fin(0))
      [] OTHER           -> [fp |-> "fin",
                             v |-> 500 + rsb.v - Div(rsb.v * rsb.v, 30000)]

\* Lines 959-1016: pbub(rsb, pbmethod).  Lines 979-988: rsb * api * sg * degf
\* == 0 ends the process.
pbub(rsb, pbmethod) ==
    IF rsb.fp = "fin" /\ rsb.v = 0 THEN [fp |-> "exit", v |-> 0]
    ELSE CASE pbmethod = "STAN"  -> pbub_standing(rsb)
           [] pbmethod = "VALMC" -> pbub_valko_mccain(rsb)
           [] pbmethod = "VELAR" -> pbub_velarde(rsb)

\* Lines 1078-1081: the closed-form inverse of pbub_velarde, max(rsb, 0)
rsbub_velarde(pb) ==
    LET rsb == Div(8 * pb, 9) IN IF rsb > 0 THEN rsb ELSE 0

\* Lines 1063-1065: first guess from Velarde, i = 0, pbcalc = 0
NewtonStart(pb) ==
    [pc |-> "while", pb |-> pb, rsb |-> Fin(rsbub_velarde(pb)),
     pbcalc |-> [fp |-> "fin", v |-> 0], i |-> 0]

\* Line 1066: while abs(pb - pbcalc) > 1e-5 (False for NaN)
NewtonContinue(n) ==
    CASE n.pbcalc.fp = "fin" -> Abs(n.pb - n.pbcalc.v) * 100000 > PsiaUnit
      [] n.pbcalc.fp = "nan" -> FALSE
      [] OTHER               -> TRUE

\* Lines 1070-1073: rsb - (pbcalc - pb) / dpbdrsb with
\* dpbdrsb = pbub(rsb + 0.5) - pbub(rsb - 0.5).
\*   rsb not finite: pbcalc and dpbdrsb are inf or NaN, the result is NaN
\*   pbcalc and both neighbours complex: dpbdrsb = 0j, the division raises
\*       ZeroDivisionError and the except clause leaves rsb as it is
\*   one of the three complex: the result is complex ("cplx")
\*   pbub(rsb + 0.5) = inf: the quotient is 0
\*   dpbdrsb = 0.0: numpy gives 0/0 = NaN, x/0 = +-inf
NewtonRsb(n, pbcalc, hi, lo) ==
    CASE n.rsb.fp # "fin" -> NaN
      [] pbcalc.fp = "cplx" /\ hi.fp = "cplx" -> n.rsb
      [] "cplx" \in {pbcalc.fp, hi.fp, lo.fp} -> [fp |-> "cplx", v |-> 0]
      [] hi.fp = "inf" -> n.rsb
      [] hi.v - lo.v = 0 ->
            IF pbcalc.v = n.pb THEN NaN
            ELSE IF pbcalc.v > n.pb THEN Fin(-RsbRange) ELSE Huge
      [] OTHER ->
            LET r == n.rsb.v - Div((pbcalc.v - n.pb) * 2 * HalfScf, hi.v - lo.v)
            IN  IF r > RsbRange THEN Huge
                ELSE IF r < -RsbRange THEN Fin(-RsbRange) ELSE Fin(r)

\* Lines 1067-1075: one pass through the loop body.  pc becomes "exit" when a
\* call of pbub ends the process, "cplx" when rsb becomes complex, "velar"
\* when i > 100.
NewtonBody(n) ==
    LET pbcalc == pbub(n.rsb, "VALMC")
        hi     == pbub(RsbAdd(n.rsb, HalfScf), "VALMC")
        lo     == pbub(RsbAdd(n.rsb, -HalfScf), "VALMC")
        rsb    == NewtonRsb(n, pbcalc, hi, lo)
    IN  IF "exit" \in {pbcalc.fp, hi.fp, lo.fp}
        THEN [n EXCEPT !.pc = "exit", !.i = n.i + 1]
        ELSE [n EXCEPT !.pbcalc = pbcalc, !.rsb = rsb, !.i = n.i + 1,
                       !.pc = IF rsb.fp = "cplx" THEN "cplx"
                              ELSE IF n.i + 1 > 100 THEN "velar" ELSE "while"]

\* What Rsbub gives back: a number, or the way the call ended
Num(v) == [kind |-> "num", v |-> v]
Ended(how) == [kind |-> how, v |-> 0]

\* Lines 1074-1076 and 1087-1091: the value of a finished rsbub_valko_mccain
\* as Rsbub returns it; np.isnan(rsbub) gives 0
NewtonResult(n) ==
    CASE n.pc = "velar" -> Num(rsbub_velarde(n.pb))
      [] n.pc = "exit"  -> Ended("exit")
      [] n.pc = "cplx"  -> Ended("cplx")
      [] n.rsb.fp = "fin"  -> Num(n.rsb.v)
      [] n.rsb.fp = "huge" -> Ended("inf")
      [] OTHER          -> Num(0)

\* rsbub_valko_mccain run to its end.  NewtonIter[n, k] is the loop of lines
\* 1066-1075 run for up to 2^k passes (at most 101 are made)
NewtonRun(n) ==
    LET NewtonIter[nn \in [pc : {"while", "velar", "exit", "cplx"}, pb : Int,
                          rsb : [fp : {"fin", "huge", "nan", "cplx"}, v : Int],
                          pbcalc : [fp : {"fin", "inf", "nan", "cplx"}, v : Int], i : Int],
                   k \in 0..7] ==
            IF k = 0
            THEN IF nn.pc # "while" \/ ~NewtonContinue(nn) THEN nn ELSE NewtonBody(nn)
            ELSE NewtonIter[NewtonIter[nn, k - 1], k - 1]
    IN  NewtonResult(NewtonIter[n, 7])

\* Lines 1018-1091: Rsbub(pb, pbmethod).  Lines 1041-1049: pb * api * sg *
\* degf == 0 ends the process.  Lines 1055-1059: rsbub_standing returns the
\* name rsb, which it never binds: NameError.
RsbubValue(pb, pbmethod) ==
    IF pb = 0 THEN Ended("exit")
    ELSE CASE pbmethod = "STAN"  -> Ended("raised")
           [] pbmethod = "VELAR" -> Num(rsbub_velarde(pb))
           [] pbmethod = "VALMC" -> NewtonRun(NewtonStart(pb))

\* The solution gas ratios and pressures callers pass
RsbArgs == {1000, 6000, 12000}
PbArgs == {0, 300, 500, 3000, 8300}

RsIdle ==
    [pc |-> "idle", pbmethod |-> "VELAR", rsb0 |-> 0, n |-> NewtonStart(0),
     ret |-> Ended("none")]

\* Rsbub(pb, pbmethod) with STAN or VELAR, or with pb = 0: lines 1036-1059 and
\* 1078-1091 in one step.  rsb0 > 0 records that the caller computed
\* pb = pbub(rsb0, pbmethod).
RsbubCall ==
    /\ op = "idle"
    /\ MayCall("Rsbub")
    /\ \E m \in {"STAN", "VALMC", "VELAR"}, rsb0 \in RsbArgs \cup {0}, pb0 \in PbArgs :
          LET pb == IF rsb0 > 0 THEN pbub(Fin(rsb0), m).v ELSE pb0
          IN  /\ Asks("Rsbub", [pbmethod |-> m, pb |-> pb, rsb0 |-> rsb0])
              /\ rsb0 > 0 => pbub(Fin(rsb0), m).fp = "fin"
              /\ m # "VALMC" \/ pb = 0
              /\ rs' = [RsIdle EXCEPT !.pc = IF RsbubValue(pb, m).kind = "num"
                                              THEN "returned" ELSE RsbubValue(pb, m).kind,
                                      !.pbmethod = m, !.rsb0 = rsb0,
                                      !.n = NewtonStart(pb),
                                      !.ret = RsbubValue(pb, m)]
    /\ op' = "Rsbub"
    /\ UNCHANGED <<prev, bis, gz, pz, mb, tp>>

\* Rsbub(pb, 'VALMC'): lines 1036-1065, up to the first while test
RsbubNewtonCall ==
    /\ op = "idle"
    /\ MayCall("Rsbub")
    /\ \E rsb0 \in RsbArgs \cup {0}, pb0 \in PbArgs \ {0} :
          LET pb == IF rsb0 > 0 THEN pbub(Fin(rsb0), "VALMC").v ELSE pb0
          IN  /\ Asks("Rsbub", [pbmethod |-> "VALMC", pb |-> pb, rsb0 |-> rsb0])
              /\ rs' = [RsIdle EXCEPT !.pc = "while", !.pbmethod = "VALMC",
                                      !.rsb0 = rsb0, !.n = NewtonStart(pb)]
    /\ op' = "Rsbub"
    /\ UNCHANGED <<prev, bis, gz, pz, mb, tp>>

\* Lines 1066-1073: a Newton step that stays in the loop
RsbubNewtonStep ==
    /\ rs.pc = "while"
    /\ NewtonContinue(rs.n)
    /\ NewtonBody(rs.n).pc = "while"
    /\ rs' = [rs EXCEPT !.n = NewtonBody(rs.n)]
    /\ UNCHANGED <<prev, op, bis, gz, pz, mb, tp>>

\* Lines 1074-1075: the step that makes i > 100 returns the Velarde inverse
RsbubNewtonFallback ==
    /\ rs.pc = "while"
    /\ NewtonContinue(rs.n)
    /\ NewtonBody(rs.n).pc = "velar"
    /\ rs' = [rs EXCEPT !.n = NewtonBody(rs.n), !.pc = "returned",
                        !.ret = NewtonResult(NewtonBody(rs.n))]
    /\ UNCHANGED <<prev, op, bis, gz, pz, mb, tp>>

\* Lines 1068-1073: pbub ends the process (rsb, rsb + 0.5 or rsb - 0.5 is 0),
\* or rsb becomes complex
RsbubNewtonAbort ==
    /\ rs.pc = "while"
    /\ NewtonContinue(rs.n)
    /\ NewtonBody(rs.n).pc \in {"exit", "cplx"}
    /\ rs' = [rs EXCEPT !.n = NewtonBody(rs.n), !.pc = NewtonBody(rs.n).pc,
                        !.ret = NewtonResult(NewtonBody(rs.n))]
    /\ UNCHANGED <<prev, op, bis, gz, pz, mb, tp>>

\* Lines 1066, 1076, 1087-1091: the while test fails; rsb, or 0 for NaN
RsbubNewtonReturn ==
    /\ rs.pc = "while"
    /\ ~NewtonContinue(rs.n)
    /\ rs' = [rs EXCEPT !.pc = "returned", !.ret = NewtonResult(rs.n)]
    /\ UNCHANGED <<prev, op, bis, gz, pz, mb, tp>>

RsbubStep ==
    RsbubNewtonStep \/ RsbubNewtonFallback \/ RsbubNewtonAbort \/ RsbubNewtonReturn

---------------------------------------------------------------------------
(* make_bot: reconciliation of pb and rsb, and the Rs column of the table *)

\* The arguments callers pass (0: not supplied)
MbPb == {0, 300, 3000, 8005, 9000}
MbRsb == {0, 500, 3000, 8000}
MbPi == {2735, 3000, 3500}
MbPmax == {4000}
MbNrows == {5, 6}

\* Line 1408: the default pmin = 14.7
Pmin == 1470

\* The elements of a finite set of integers in ascending order (line 1463)
RECURSIVE SortedSeq(_)
SortedSeq(S) ==
    IF S = {} THEN <<>>
    ELSE LET lo == CHOOSE x \in S : \A y \in S : x <= y
         IN  <<lo>> \o SortedSeq(S \ {lo})

\* Lines 1448-1464: the pressures of the table
Pressures(pb, pi, pmax, nrows) ==
    LET d1    == IF Pmin \in {pb, pi} THEN 1 ELSE 0
        d2    == IF pmax \in {pb, pi} THEN 1 ELSE 0
        d3    == IF pb = pi THEN 1 ELSE 0
        drows == 3 - d1 - d2 - d3
        incr  == Div(pmax - Pmin, nrows - drows)
        grid  == {p \in {Pmin + j * incr : j \in 0..(nrows + 1)} : p < pmax + incr}
    IN  SortedSeq(grid \cup {pb, pi})

MbIdle ==
    [pc |-> "idle", pb |-> 0, rsb |-> 0, pi |-> 0, pmax |-> 0, nrows |-> 0,
     both |-> FALSE,
     pbcalc |-> [fp |-> "fin", v |-> 0], err |-> [fp |-> "fin", v |-> 0],
     rsb_old |-> 0, rsbnew |-> 0, i |-> 0, rsb_frac |-> One,
     pbi |-> 0, pressures |-> <<>>, k |-> 0, rss |-> <<>>, rows |-> <<>>,
     columns |-> <<>>, arg |-> [pb |-> 0, rsb |-> 0]]

\* Lines 1433-1436: pbcalc of the user's rsb, err = 100, rsb_old = rsb, i = 0
ReconStart(m) ==
    LET pbcalc == pbub(Fin(m.rsb), "VALMC")
    IN  IF pbcalc.fp = "exit" THEN [m EXCEPT !.pc = "exit"]
        ELSE [m EXCEPT !.pc = "while", !.both = TRUE, !.pbcalc = pbcalc,
                       !.err = [fp |-> "fin", v |-> 100 * PsiaUnit],
                       !.rsb_old = m.rsb, !.i = 0]

\* ReconContinue with the tolerance 0.1 psia
ReconContinue_tenth(m) == m.err.fp = "inf" \/ m.err.v * 10 > PsiaUnit

\* Line 1437: while err > 0.01
ReconContinue(m) == m.err.fp = "inf" \/ m.err.v * 100 > PsiaUnit

\* Line 1438: rsbnew = pb / pbcalc * rsb_old; pb / inf = 0
ReconRsb(m) ==
    IF m.pbcalc.fp = "inf" THEN Fin(0)
    ELSE LET r == Div(m.pb * m.rsb_old, m.pbcalc.v)
         IN  IF r > RsbRange THEN Huge ELSE Fin(r)

\* Lines 1438-1444: one pass through the loop body; pc becomes "exit" when
\* pbub ends the process (rsbnew = 0) or when i > 100
ReconBody(m) ==
    LET rsbnew == ReconRsb(m)
        pbcalc == pbub(rsbnew, "VALMC")
    IN  IF pbcalc.fp = "exit" THEN [m EXCEPT !.pc = "exit", !.i = m.i + 1]
        ELSE [m EXCEPT !.rsbnew = rsbnew.v, !.rsb_old = rsbnew.v,
                       !.pbcalc = pbcalc,
                       !.err = IF pbcalc.fp = "inf" THEN [fp |-> "inf", v |-> 0]
                               ELSE [fp |-> "fin", v |-> Abs(m.pb - pbcalc.v)],
                       !.i = m.i + 1,
                       !.pc = IF m.i + 1 > 100 THEN "exit" ELSE "while"]

\* rsb_frac of line 1446 computed as rsb / rsbnew
ReconFrac_inverted(m) == Quo(m.rsb, m.rsbnew)

\* Line 1446: rsb_frac = rsbnew / rsb
ReconFrac(m) == Quo(m.rsbnew, m.rsb)

\* Lines 1448-1465: pbi = pb, the pressures, the empty columns
TableStart(m) ==
    [m EXCEPT !.pc = "rows", !.pbi = m.pb, !.pressures = Pressures(m.pb, m.pi, m.pmax, m.nrows),
              !.k = 0, !.rss = <<>>, !.rows = <<>>]

\* Lines 1472-1480: the family that inverts the pressure of a row at or below
\* the bubble point
RowMethod(rss) ==
    IF Len(rss) > 1
    THEN IF rss[Len(rss)] > 10 * ScfUnit THEN "VALMC" ELSE "VELAR"
    ELSE "VALMC"

\* RowBody without the division by rsb_frac
RowBody_unscaled(m) ==
    LET p == m.pressures[m.k + 1]
    IN  IF p > m.pbi
        THEN [m EXCEPT !.k = m.k + 1, !.pb = m.pbi, !.rss = Append(m.rss, m.rsb),
                       !.rows = Append(m.rows, [p |-> p, rs |-> m.rsb, raw |-> m.rsb,
                                                 method |-> "none", pb |-> m.pbi,
                                                 bo_pb |-> m.pbi])]
        ELSE LET r == RsbubValue(p, RowMethod(m.rss))
             IN  IF r.kind # "num" THEN [m EXCEPT !.pc = r.kind, !.pb = p]
                 ELSE [m EXCEPT !.k = m.k + 1, !.pb = p,
                                !.rss = Append(m.rss, r.v),
                                !.rows = Append(m.rows,
                                           [p |-> p, rs |-> r.v,
                                            raw |-> r.v, method |-> RowMethod(m.rss),
                                            pb |-> p, bo_pb |-> m.pbi])]

\* Lines 1467-1483: the Rs of the next row.  raw is the value Rsbub returned,
\* before the division by rsb_frac; pb is the local pb as lines 1470 and 1473
\* leave it, which viso is called with (line 1483), bo_pb the pb Bo is called
\* with (line 1482).
RowBody(m) ==
    LET p == m.pressures[m.k + 1]
    IN  IF p > m.pbi
        THEN [m EXCEPT !.k = m.k + 1, !.pb = m.pbi, !.rss = Append(m.rss, m.rsb),
                       !.rows = Append(m.rows, [p |-> p, rs |-> m.rsb, raw |-> m.rsb,
                                                 method |-> "none", pb |-> m.pbi,
                                                 bo_pb |-> m.pbi])]
        ELSE LET r == RsbubValue(p, RowMethod(m.rss))
             IN  IF r.kind # "num" THEN [m EXCEPT !.pc = r.kind, !.pb = p]
                 ELSE [m EXCEPT !.k = m.k + 1, !.pb = p,
                                !.rss = Append(m.rss, Quo(r.v, m.rsb_frac)),
                                !.rows = Append(m.rows,
                                           [p |-> p, rs |-> Quo(r.v, m.rsb_frac),
                                            raw |-> r.v, method |-> RowMethod(m.rss),
                                            pb |-> p, bo_pb |-> m.pbi])]

\* Lines 1496-1505: the columns of the DataFrame, each with the list it is
\* assigned and the quantity the loop of lines 1468-1489 appends to that list
\* (rss: Rs; bos: Bo(); uos: viso(); gz: gas_z(); gfvf: 1/OneonBg(); visg:
\* ug(); bws, visws: bw and visw of brine_props())
Columns ==
    <<[name |-> "Pressure (psia)", list |-> "pressures", quantity |-> "pressure"],
      [name |-> "Rs (scf/stb)", list |-> "rss", quantity |-> "solution gas ratio"],
      [name |-> "Bo (rb/stb)", list |-> "bos", quantity |-> "oil formation volume factor"],
      [name |-> "uo (cP)", list |-> "uos", quantity |-> "oil viscosity"],
      [name |-> "Gas Z (v/v)", list |-> "gz", quantity |-> "Z-factor"],
      [name |-> "Bg (rb/mscf", list |-> "gfvf", quantity |-> "gas formation volume factor"],
      [name |-> "ug (cP)", list |-> "visg", quantity |-> "gas viscosity"],
      [name |-> "Bw (rb/stb)", list |-> "bws", quantity |-> "water formation volume factor"],
      [name |-> "uw (cP)", list |-> "visws", quantity |-> "water viscosity"]>>

\* MbEnter with rsb_frac a module-level variable that line 1427 does not reset
MbEnter_staleFrac(pb, rsb, pi, pmax, nrows) ==
    [MbIdle EXCEPT !.pb = pb, !.rsb = rsb, !.pi = pi, !.pmax = pmax,
                   !.nrows = nrows, !.arg = [pb |-> pb, rsb |-> rsb],
                   !.rsb_frac = mb.rsb_frac]

\* Lines 1408, 1426-1427: the frame of a call of make_bot, its parameters bound
\* and rsb_frac = 1.0
MbEnter(pb, rsb, pi, pmax, nrows) ==
    [MbIdle EXCEPT !.pb = pb, !.rsb = rsb, !.pi = pi, !.pmax = pmax,
                   !.nrows = nrows, !.arg = [pb |-> pb, rsb |-> rsb],
                   !.rsb_frac = One]

\* make_bot with a scale factor of 2 when one of pb and rsb is derived
MakeBotCall_scalesDerived ==
    /\ op = "idle"
    /\ MayCall("make_bot")
    /\ \E pb \in MbPb, rsb \in MbRsb, pi \in MbPi, pmax \in MbPmax, nrows \in MbNrows :
          LET m == MbEnter(pb, rsb, pi, pmax, nrows)
              r == RsbubValue(pb, "VALMC")
              p == pbub(Fin(rsb), "VALMC")
          IN  /\ Asks("make_bot", MbSig(m))
              /\ mb' = IF rsb <= 0 /\ pb > 0
                       THEN IF r.kind # "num" THEN [m EXCEPT !.pc = r.kind]
                            ELSE TableStart([m EXCEPT !.rsb = r.v, !.rsb_frac = 2 * One])
                       ELSE IF pb <= 0 /\ rsb > 0
                       THEN TableStart([m EXCEPT !.pb = p.v, !.rsb_frac = 2 * One])
                       ELSE ReconStart(m)
    /\ op' = "make_bot"
    /\ UNCHANGED <<prev, bis, gz, pz, rs, tp>>

\* make_bot(pi, pb, rsb): lines 1426-1436, and lines 1448-1465 when only one
\* of pb and rsb is supplied.  arg keeps the pb and rsb the caller passed.
MakeBotCall ==
    /\ op = "idle"
    /\ MayCall("make_bot")
    /\ \E pb \in MbPb, rsb \in MbRsb, pi \in MbPi, pmax \in MbPmax, nrows \in MbNrows :
          LET m == MbEnter(pb, rsb, pi, pmax, nrows)
              r == RsbubValue(pb, "VALMC")
              p == pbub(Fin(rsb), "VALMC")
          IN  /\ Asks("make_bot", MbSig(m))
              /\ mb' = IF rsb <= 0 /\ pb > 0
                       THEN IF r.kind # "num" THEN [m EXCEPT !.pc = r.kind]
                            ELSE TableStart([m EXCEPT !.rsb = r.v])
                       ELSE IF pb <= 0 /\ rsb > 0
                       THEN TableStart([m EXCEPT !.pb = p.v])
                       ELSE ReconStart(m)
    /\ op' = "make_bot"
    /\ UNCHANGED <<prev, bis, gz, pz, rs, tp>>

\* Lines 1437-1442: an iteration of the reconciliation that stays in the loop
MakeBotIterate ==
    /\ mb.pc = "while"
    /\ ReconContinue(mb)
    /\ ReconBody(mb).pc = "while"
    /\ mb' = ReconBody(mb)
    /\ UNCHANGED <<prev, op, bis, gz, pz, rs, tp>>

\* Lines 1437-1444: the iteration that makes i > 100, or in which pbub ends
\* the process
MakeBotFatal ==
    /\ mb.pc = "while"
    /\ ReconContinue(mb)
    /\ ReconBody(mb).pc # "while"
    /\ mb' = ReconBody(mb)
    /\ UNCHANGED <<prev, op, bis, gz, pz, rs, tp>>

\* Lines 1437, 1446-1465: the while test fails; rsb_frac and the pressures
MakeBotReconciled ==
    /\ mb.pc = "while"
    /\ ~ReconContinue(mb)
    /\ mb' = TableStart([mb EXCEPT !.rsb_frac = ReconFrac(mb)])
    /\ UNCHANGED <<prev, op, bis, gz, pz, rs, tp>>

\* MakeBotRow without the copy pbi of line 1448: the loop tests p > pb and the
\* assignment pb = p of line 1473 moves the bubble point of the table
MakeBotRow_movesBubblePoint ==
    /\ mb.pc = "rows"
    /\ mb.k < Len(mb.pressures)
    /\ mb' = [RowBody(mb) EXCEPT !.pbi = RowBody(mb).pb]
    /\ UNCHANGED <<prev, op, bis, gz, pz, rs, tp>>

\* Lines 1467-1483: the Rs of one row (an exception or sys.exit inside Rsbub
\* ends make_bot)
MakeBotRow ==
    /\ mb.pc = "rows"
    /\ mb.k < Len(mb.pressures)
    /\ mb' = RowBody(mb)
    /\ UNCHANGED <<prev, op, bis, gz, pz, rs, tp>>

\* Lines 1491-1506: the table is returned
MakeBotReturn ==
    /\ mb.pc = "rows"
    /\ mb.k = Len(mb.pressures)
    /\ mb' = [mb EXCEPT !.pc = "returned", !.columns = Columns]
    /\ UNCHANGED <<prev, op, bis, gz, pz, rs, tp>>

MakeBotStep == MakeBotIterate \/ MakeBotFatal \/ MakeBotReconciled \/ MakeBotRow
                  \/ MakeBotReturn

---------------------------------------------------------------------------
(* Method selectors and gas_tc_pc *)

\* str.upper() on the letters the method names are written with
UpperOf ==
    [a |-> "A", c |-> "C", d |-> "D", e |-> "E", h |-> "H", i |-> "I", k |-> "K", l |-> "L",
     m |-> "M", n |-> "N", p |-> "P", r |-> "R", s |-> "S", t |-> "T", u |-> "U",
     v |-> "V", x |-> "X", y |-> "Y", z |-> "Z"]

Upper(ch) == IF ch \in DOMAIN UpperOf THEN UpperOf[ch] ELSE ch

\* s.upper() for a string held as its sequence of characters
StrUpper(s) == [j \in DOMAIN s |-> Upper(s[j])]

\* Lines 32-44: the member names of the classes z_method, c_method, pb_method
z_method == {<<"D", "A", "K">>, <<"L", "I", "N">>, <<"H", "Y">>}
c_method == {<<"P", "M", "C">>, <<"S", "U", "T">>}
pb_method == {<<"S", "T", "A", "N">>, <<"V", "A", "L", "M", "C">>,
              <<"V", "E", "L", "A", "R">>}

\* The two kinds of value a caller passes as a selector
Member(name) == [type |-> "enum", name |-> name]
Str(s) == [type |-> "str", name |-> s]

\* Lines 290-295 (and 296-301, 641-652, 699-710, 972-977, 1039-1044): a str
\* is looked up by its upper-cased text in the class, a failed lookup prints
\* and ends the process; any other value is kept as it is
Resolve(class, sel) ==
    IF sel.type = "str"
    THEN IF StrUpper(sel.name) \in class THEN Member(StrUpper(sel.name))
         ELSE [type |-> "exit", name |-> <<>>]
    ELSE sel

\* Lines 231, 248, 258: cmethod == 'PMC', cmethod == 'SUT': equality with a
\* str, which no member of c_method and no other spelling satisfies
TcPcBranch(cmethod) ==
    IF cmethod = Str(<<"P", "M", "C">>) THEN "PMC"
    ELSE IF cmethod = Str(<<"S", "U", "T">>) THEN "SUT"
    ELSE "exit"

\* Lines 233-236: alpha, beta (indices 0, 4, 5 and the three of the
\* impurities h2s, co2, n2), tci, pci and the square roots of pci
alpha == [a0 |-> 116, a4 |-> 707, a5 |-> -99, y |-> <<-458, -903, -660>>]
beta == [b0 |-> 3822, b4 |-> 17438, b5 |-> -3219, y |-> <<-65, -421, -912>>]
tci == <<672, 548, 239>>
pci == <<1306, 1071, 508>>
SqrtPci == <<36139, 32726, 22528>>

\* Lines 232-246: Piper, McCain & Corredor; y = (h2s, co2, n2)
PMC(sg, c) ==
    LET y == <<c.h2s, c.co2, c.n2>>
        j0 == alpha.a0 + Mul(alpha.a4, sg) + Mul(alpha.a5, Mul(sg, sg))
        k0 == beta.b0 + Mul(beta.b4, sg) + Mul(beta.b5, Mul(sg, sg))
        js == Div(alpha.y[1] * y[1] * tci[1], pci[1] * One)
                + Div(alpha.y[2] * y[2] * tci[2], pci[2] * One)
                + Div(alpha.y[3] * y[3] * tci[3], pci[3] * One)
        ks == Div(beta.y[1] * y[1] * tci[1], SqrtPci[1])
                + Div(beta.y[2] * y[2] * tci[2], SqrtPci[2])
                + Div(beta.y[3] * y[3] * tci[3], SqrtPci[3])
        jt == j0 + js
        kt == k0 + ks
        tpc == Quo(Mul(kt, kt), jt)
    IN  <<tpc, Quo(tpc, jt)>>

\* Lines 249-256: Sutton with the Wichert & Aziz corrections.  The real
\* powers of line 250 are taken at the nearest integer exponent, and line
\* 256 multiplies ppc_star by the quotient instead of dividing the product.
SUT(sg, c) ==
    LET hc == One - c.n2 - c.co2 - c.h2s
        sg_hc == Quo(sg - Div(c.n2 * 2801 + c.co2 * 4401 + c.h2s * 3410, 2897), hc)
        x == c.co2 + c.h2s
        h4 == Mul(Mul(c.h2s, c.h2s), Mul(c.h2s, c.h2s))
        eps == 120 * (x - Mul(x, x)) + 15 * (c.h2s - h4)
        ppc_hc == 756800 - 131 * sg_hc - Div(36 * Mul(sg_hc, sg_hc), 10)
        tpc_hc == 169200 + Div(3495 * sg_hc, 10) - 74 * Mul(sg_hc, sg_hc)
        ppc_star == Mul(hc, ppc_hc) + Div(c.n2 * 5075, 10) + c.co2 * 1071 + c.h2s * 1306
        tpc_star == Mul(hc, tpc_hc) + Div(c.n2 * 2393, 10) + Div(c.co2 * 5476, 10)
                       + Div(c.h2s * 6724, 10)
        den == tpc_star + Mul(Mul(c.h2s, One - c.h2s), eps)
    IN  <<tpc_star - eps, Mul(ppc_star, Quo(tpc_star - eps, den))>>

\* The value of the correlation a branch of lines 231-256 computes
Correlation(branch, sg, c) == IF branch = "PMC" THEN PMC(sg, c) ELSE SUT(sg, c)

\* Line 228: tc*pc > 0
Specified(tc, pc) == (tc > 0 /\ pc > 0) \/ (tc < 0 /\ pc < 0)

\* Lines 262-266: an override > 0 replaces the value of the correlation
Override(corr, tc, pc) ==
    <<IF tc > 0 THEN tc ELSE corr[1], IF pc > 0 THEN pc ELSE corr[2]>>

\* The selectors callers pass: the members of a class, each name as a str in
\* capitals, in small letters and capitalised, and a name no class has
LowerOf ==
    [A |-> "a", C |-> "c", D |-> "d", E |-> "e", H |-> "h", I |-> "i", K |-> "k", L |-> "l",
     M |-> "m", N |-> "n", P |-> "p", R |-> "r", S |-> "s", T |-> "t", U |-> "u",
     V |-> "v", X |-> "x", Y |-> "y", Z |-> "z"]
StrLower(s) == [j \in DOMAIN s |-> LowerOf[s[j]]]
Capitalised(s) == [j \in DOMAIN s |-> IF j = 1 THEN s[j] ELSE LowerOf[s[j]]]
Unknown == <<"X", "Y", "Z">>
Selectors(class) ==
    {Member(n) : n \in class}
        \cup {Str(n) : n \in class} \cup {Str(StrLower(n)) : n \in class}
        \cup {Str(Capitalised(n)) : n \in class} \cup {Str(Unknown)}

\* Arguments of the calls: specific gravities, compositions, overrides
SgArgs == {600, 900}
Compositions ==
    {[n2 |-> 0, co2 |-> 0, h2s |-> 0], [n2 |-> 100, co2 |-> 0, h2s |-> 0],
     [n2 |-> 0, co2 |-> 100, h2s |-> 50]}
TcArgs == {-400000, 0, 400000}
PcArgs == {-600000, 0, 600000}

\* No call of gas_tc_pc or of a front end of it in progress
TpIdle ==
    [pc |-> "idle", fn |-> "none", zsel |-> Member(<<>>), csel |-> Member(<<>>),
     psel |-> Member(<<>>), cmethod |-> Member(<<>>), sg |-> 0,
     comp |-> [n2 |-> 0, co2 |-> 0, h2s |-> 0], tc |-> 0, pcrit |-> 0,
     evaluated |-> "none", zalg |-> "none", palg |-> "none", ret |-> <<0, 0>>]

\* The name of a member as the text the dictionaries of lines 434-436,
\* 1012-1014 and 1083-1085 are keyed with
NameOf(name) ==
    CASE name = <<"D", "A", "K">> -> "DAK"
      [] name = <<"L", "I", "N">> -> "LIN"
      [] name = <<"H", "Y">> -> "HY"
      [] name = <<"P", "M", "C">> -> "PMC"
      [] name = <<"S", "U", "T">> -> "SUT"
      [] name = <<"S", "T", "A", "N">> -> "STAN"
      [] name = <<"V", "A", "L", "M", "C">> -> "VALMC"
      [] name = <<"V", "E", "L", "A", "R">> -> "VELAR"
      [] OTHER -> "none"

\* gas_tc_pc entered without the test of line 228
TcPcEnter_noBypass(t) == [t EXCEPT !.pc = "branch"]

\* Lines 228-229 of gas_tc_pc entered with the frame t: the overrides are
\* returned, or the branches of lines 231-258 are next
TcPcEnter(t) ==
    IF Specified(t.tc, t.pcrit)
    THEN [t EXCEPT !.pc = "returned", !.ret = <<t.tc, t.pcrit>>]
    ELSE [t EXCEPT !.pc = "branch"]

\* gas_tc_pc(sg, n2, co2, h2s, cmethod, tc, pc) called by the user
GasTcPcCall ==
    /\ op = "idle"
    /\ MayCall("gas_tc_pc")
    /\ \E sel \in Selectors(c_method), sg \in SgArgs, c \in Compositions,
          tc \in TcArgs, pc \in PcArgs :
          LET t == [TpIdle EXCEPT !.fn = "gas_tc_pc", !.csel = sel, !.cmethod = sel,
                                  !.sg = sg, !.comp = c, !.tc = tc, !.pcrit = pc]
          IN  /\ Asks("gas_tc_pc", TpSig(t))
              /\ tp' = TcPcEnter(t)
    /\ op' = "gas_tc_pc"
    /\ UNCHANGED <<prev, bis, gz, pz, rs, mb>>

\* The functions that resolve zmethod and cmethod as gas_z does (lines 290-301,
\* 463-474, 554-565, 593-604, 641-652, 699-710) and evaluate Z through gas_z
FrontEnds == {"gas_z", "ug", "OneonBg", "gas_den", "PonZ2P", "deltamp"}

\* The front ends whose call of gas_z (lines 567, 606, 638) passes no cmethod
DropCmethod == {"OneonBg", "gas_den", "PonZ2P"}

\* The cmethod gas_tc_pc receives.  Called by the user: the selector as
\* given.  Through a front end: cmethod.name of the member gas_z holds at
\* line 303; ug (line 476) and deltamp (line 696) hand their resolved member
\* on to gas_z, the front ends of DropCmethod leave gas_z with its default,
\* the member PMC.
CmethodArg(fn, csel) ==
    IF fn = "gas_tc_pc" THEN csel
    ELSE IF fn \in DropCmethod THEN Str(<<"P", "M", "C">>)
    ELSE Str(Resolve(c_method, csel).name)

\* Lines 290-303 of gas_z, 641-652 of PonZ2P, 699-710 of deltamp: the two
\* selectors are resolved, then gas_tc_pc is called
GasFrontEndCall ==
    /\ op = "idle"
    /\ MayCall("selectors")
    /\ \E fn \in {g \in FrontEnds : AsksFn(g)}, zsel \in Selectors(z_method),
          csel \in Selectors(c_method), sg \in SgArgs, tc \in {0, 400000},
          pc \in {0, 600000} :
          LET t == [TpIdle EXCEPT !.fn = fn, !.zsel = zsel, !.csel = csel,
                                  !.cmethod = csel, !.sg = sg, !.tc = tc, !.pcrit = pc]
          IN  /\ Asks("selectors", TpSig(t))
              /\ tp' = IF Resolve(z_method, zsel).type = "exit"
                          \/ Resolve(c_method, csel).type = "exit"
                       THEN [t EXCEPT !.pc = "exit"]
                       ELSE TcPcEnter([t EXCEPT !.cmethod = CmethodArg(fn, csel)])
    /\ op' = "selectors"
    /\ UNCHANGED <<prev, bis, gz, pz, rs, mb>>

\* Lines 231-256 and 262-266: the correlation of the branch taken, then the
\* overrides, and the return of line 266
GasTcPcEvaluate ==
    /\ tp.pc = "branch"
    /\ TcPcBranch(tp.cmethod) # "exit"
    /\ LET b == TcPcBranch(tp.cmethod)
       IN  tp' = [tp EXCEPT !.pc = "returned", !.evaluated = b,
                            !.ret = Override(Correlation(b, tp.sg, tp.comp), tp.tc, tp.pcrit)]
    /\ UNCHANGED <<prev, op, bis, gz, pz, rs, mb>>

\* Lines 258-260: print('Incorrect cmethod specified'); sys.exit()
GasTcPcFatal ==
    /\ tp.pc = "branch"
    /\ TcPcBranch(tp.cmethod) = "exit"
    /\ tp' = [tp EXCEPT !.pc = "exit"]
    /\ UNCHANGED <<prev, op, bis, gz, pz, rs, mb>>

\* Line 438: zfuncs[zmethod.name] after gas_tc_pc has returned to a front end
GasFrontEndDispatch ==
    /\ tp.pc = "returned"
    /\ tp.fn \in FrontEnds
    /\ tp' = [tp EXCEPT !.pc = "dispatched",
                        !.zalg = NameOf(Resolve(z_method, tp.zsel).name)]
    /\ UNCHANGED <<prev, op, bis, gz, pz, rs, mb>>

\* Lines 972-977 and 1016 of pbub, 1039-1044 and 1087 of Rsbub: the selector
\* is resolved and fn_dic[pbmethod.name] is called
BubbleSelect ==
    /\ op = "idle"
    /\ MayCall("selectors")
    /\ \E fn \in {"pbub", "Rsbub"}, psel \in Selectors(pb_method) :
          LET pm == Resolve(pb_method, psel)
              t == [TpIdle EXCEPT !.fn = fn, !.psel = psel]
          IN  /\ Asks("selectors", TpSig(t))
              /\ tp' = IF pm.type = "exit" THEN [t EXCEPT !.pc = "exit"]
                       ELSE [t EXCEPT !.pc = "dispatched", !.palg = NameOf(pm.name)]
    /\ op' = "selectors"
    /\ UNCHANGED <<prev, bis, gz, pz, rs, mb>>

GasTcPcStep == GasTcPcEvaluate \/ GasTcPcFatal \/ GasFrontEndDispatch

---------------------------------------------------------------------------

Init ==
    /\ op = "idle"
    /\ bis = BisectIdle
    /\ gz = GzIdle
    /\ pz = PonZIdle
    /\ rs = RsIdle
    /\ mb = MbIdle
    /\ tp = TpIdle
    /\ prev = NoCall

Next ==
    \/ BisectCall
    \/ BisectIterHigher
    \/ BisectIterLower
    \/ BisectExit
    \/ BisectRaise
    \/ BisectReturn
    \/ GasZLin
    \/ GasZCall
    \/ ZElemStart
    \/ ZdakIterate
    \/ ZdakHalt
    \/ ZdakAppend
    \/ ZhyIterate
    \/ ZhyAppend
    \/ ZReturn
    \/ PonZ2PCall
    \/ PonZ2PSolve
    \/ PonZ2PAppend
    \/ PonZ2PAbort
    \/ PonZ2PReturn
    \/ RsbubCall
    \/ RsbubNewtonCall
    \/ RsbubNewtonStep
    \/ RsbubNewtonFallback
    \/ RsbubNewtonAbort
    \/ RsbubNewtonReturn
    \/ MakeBotCall
    \/ MakeBotIterate
    \/ MakeBotFatal
    \/ MakeBotReconciled
    \/ MakeBotRow
    \/ MakeBotReturn
    \/ GasTcPcCall
    \/ GasFrontEndCall
    \/ GasTcPcEvaluate
    \/ GasTcPcFatal
    \/ GasFrontEndDispatch
    \/ BubbleSelect

Spec == Init /\ [][Next]_vars

\* The same calls, made one after another by one caller
RepeatNext == Next \/ CallReturns

RepeatSpec == Init /\ [][RepeatNext]_vars

\* The interpreter runs a started call to its end: every enabled step of a
\* direct call of bisect_solve and of a call of gas_z is eventually taken.
\* Whether a call is made is up to the caller.
DirectBisectStep == op = "bisect_solve" /\ BisectStep

FairSpec == Spec /\ WF_vars(DirectBisectStep) /\ WF_vars(GasZStep)

---------------------------------------------------------------------------
(* Claims *)

\* f changes sign across the caller's bracket
SignChange(b) ==
    ErrFn(b.f, b.args, b.xmin0) * ErrFn(b.f, b.args, b.xmax0) < 0

BisectDone == bis.pc \in {"returned", "exit", "raised"}

\* C1: whenever bisect_solve returns x for an error function that changes
\* sign across the bracket, |f(args, x)| <= rtol.
C1_ReturnedWithinRtol ==
    (op = "bisect_solve" /\ bis.pc = "returned" /\ SignChange(bis))
        => Abs(ErrFn(bis.f, bis.args, bis.mid_val)) <= bis.rtol

\* C10: bisect_solve terminates on every call; a run that has completed 99
\* iterations without |err_mid| <= rtol aborts on the next evaluation, an
\* abort happens in no other way, and a run whose midpoint error reaches
\* |err_mid| <= rtol within the 99 iterations returns.
C10_TerminatesAbortOrReturn ==
    /\ []((op = "bisect_solve" /\ bis.pc = "loop") => <>BisectDone)
    /\ [][(bis.pc = "loop" /\ bis.iternum = MaxBisectIter /\ BisectContinue(bis))
            => bis'.pc = "exit"]_vars
    /\ [][bis'.pc = "exit"
            => (bis.pc = "exit" \/ (bis.iternum = MaxBisectIter /\ BisectContinue(bis)))]_vars
    /\ [][(bis.pc = "loop" /\ bis.bound /\ ~BisectContinue(bis))
            => (bis'.pc = "returned" /\ bis'.iternum <= MaxBisectIter)]_vars

\* C10 witness: a run that aborted at the hundredth evaluation
C10_Witness == bis.pc = "exit" /\ bis.iternum = MaxBisectIter + 1

\* C4: when gas_z with DAK is given a sequence of pressures, the result has
\* one entry per input pressure, also when the iteration of one element does
\* not converge.
C4_OneEntryPerPressure ==
    (op = "gas_z" /\ gz.zmethod = "DAK" /\ gz.pc = "returned" /\ gz.p.shape = "seq")
        => (gz.ret.kind = "seq" /\ Len(gz.ret.vals) = Len(gz.p.vals))

\* C5: for each of LIN, DAK and HY, gas_z returns a scalar for a scalar
\* pressure, and for a sequence of n pressures a sequence of n values, the
\* k-th being the Z of the k-th pressure.
C5_ShapeAndOrder ==
    (op = "gas_z" /\ gz.pc = "returned")
        => IF gz.p.shape = "scalar"
           THEN gz.ret.kind = "scalar"
           ELSE /\ gz.ret.kind = "seq"
                /\ Len(gz.ret.vals) = Len(gz.p.vals)
                /\ \A k \in 1..Len(gz.p.vals) :
                      gz.ret.vals[k] = GasZScalar(gz.zmethod, gz.p.vals[k]).v

\* C6: PonZ2P(p / z) with z = gas_z(p) returns p within the relative
\* tolerance rtol (one unit of the lattice is allowed for its rounding).
C6_RoundTrip ==
    (op = "PonZ2P" /\ pz.pc = "returned")
        => \A k \in 1..Len(pz.p) :
              Abs(pz.p[k] - pz.ptrue[k]) * One <= (pz.rtol + 1) * pz.ptrue[k]

\* Rsbub has ended: it returned, raised, ended the process or left the reals
RsbubDone == rs.pc \in {"returned", "raised", "exit", "cplx"}

\* C2: for each of STAN, VALMC and VELAR, Rsbub(pb = pbub(rsb)) with the same
\* family returns the original rsb within the convergence tolerance (here two
\* units of the lattice), unless the VALMC-to-VELAR fallback was triggered.
C2_RoundTrip ==
    (op = "Rsbub" /\ rs.rsb0 > 0 /\ RsbubDone /\ rs.n.pc # "velar")
        => (rs.pc = "returned" /\ Abs(rs.ret.v - rs.rsb0) <= 2)

\* C3: when the Newton iteration of Rsbub with VALMC has not converged within
\* 100 steps, or has produced a non-finite rsb, Rsbub returns the value of the
\* Velarde inverse for the same pb.
C3_FallbackToVelarde ==
    (op = "Rsbub" /\ rs.pbmethod = "VALMC" /\ rs.pc = "returned"
        /\ (rs.n.i > 100 \/ rs.n.rsb.fp \in {"nan", "huge"}))
        => rs.ret = Num(rsbub_velarde(rs.n.pb))

\* The bubble point the correlation of the reconciliation implies for rsb
ImpliedPb(rsb) == pbub(Fin(rsb), "VALMC")

\* make_bot was given both pb and rsb and went on to build the table
TableAfterReconciliation == mb.both /\ mb.pc \in {"rows", "returned", "raised", "cplx"}

\* C7: when both pb and rsb are supplied, the reconciliation loop is left for
\* the table only with |pb - implied Pb| <= 0.01 psia for the final rsbnew,
\* reached in at most 100 iterations; a pass that starts after 100 iterations
\* ends the process; no table is built with a larger mismatch.
C7_ReconciledWithinTolerance ==
    /\ [][(mb.pc = "while" /\ mb'.pc = "rows")
            => /\ mb.i >= 1 /\ mb.i <= 100
               /\ mb.err.fp = "fin" /\ mb.err.v * 100 <= PsiaUnit
               /\ mb.err.v = Abs(mb.pb - ImpliedPb(mb.rsbnew).v)]_vars
    /\ [][(mb.pc = "while" /\ mb.i >= 100 /\ (mb.err.fp = "inf" \/ mb.err.v * 100 > PsiaUnit))
            => mb'.pc \in {"while", "exit"} /\ (mb'.i > 100 => mb'.pc = "exit")]_vars
    /\ [](TableAfterReconciliation
            => /\ ImpliedPb(mb.rsbnew).fp = "fin"
               /\ Abs(mb.pbi - ImpliedPb(mb.rsbnew).v) * 100 <= PsiaUnit)

\* C7 witness: a table returned after a reconciliation of several iterations
C7_Witness == mb.both /\ mb.pc = "returned" /\ mb.i > 1

\* C8: for an inconsistent pair (pb, rsb) on which make_bot returns a table,
\* the correlation-implied bubble point of the unscaled Rs of the row at
\* pressure pb equals the user's pb within 0.01 psia.
C8_BubblePointRowConsistent ==
    (op = "make_bot" /\ mb.both /\ mb.pc = "returned" /\ ImpliedPb(mb.rsb).v # mb.pbi)
        => \A k \in 1..Len(mb.rows) :
              mb.rows[k].p = mb.pbi
                  => /\ ImpliedPb(mb.rows[k].raw).fp = "fin"
                     /\ Abs(ImpliedPb(mb.rows[k].raw).v - mb.pbi) * 100 <= PsiaUnit

\* C9 as stated: after reconciliation rsb_frac = targetRsb / correlationRsb,
\* the user's rsb over the final iterated rsbnew.
C9_FracIsTargetOverCorrelation ==
    TableAfterReconciliation => mb.rsb_frac = Quo(mb.rsb, mb.rsbnew)

\* C9: after reconciliation rsb_frac is correlationRsb / targetRsb, the final
\* iterated rsbnew over the user's rsb (rsb_frac * rsb = rsbnew up to the
\* rounding of the quotient), and every Rs at or below the bubble point is
\* the value of Rsbub divided by rsb_frac.
C9_FracIsCorrelationOverTarget ==
    TableAfterReconciliation
        => /\ Abs(mb.rsb_frac * mb.rsb - mb.rsbnew * One) * 2 <= mb.rsb
           /\ \A k \in 1..Len(mb.rows) :
                 mb.rows[k].method # "none"
                     => mb.rows[k].rs = Quo(mb.rows[k].raw, mb.rsb_frac)

\* C9 witness: a returned table whose scale factor is not 1 and which has a
\* row at the bubble point
C9_Witness ==
    /\ mb.both /\ mb.pc = "returned" /\ mb.rsb_frac # One
    /\ \E k \in 1..Len(mb.rows) : mb.rows[k].p = mb.pbi /\ mb.rows[k].method # "none"

\* A call of gas_tc_pc, or of a function that resolves selectors, has ended
TpDone == tp.pc \in {"returned", "dispatched", "exit"} /\ ~(tp.pc = "returned" /\ tp.fn # "gas_tc_pc")

\* The selector names a member of the class: it is the member, or a str whose
\* letters, case apart, are the member's name
NamesMember(class, sel) == sel.name # <<>> => StrUpper(sel.name) \in class

\* The enumeration value of the member a selector names
EnumForm(sel) == Member(StrUpper(sel.name))

\* The algorithms a call selects: the Z-factor function dispatched to, the
\* correlation gas_tc_pc evaluates, the bubble-point function dispatched to
Selected(fn, zsel, csel, psel, tc, pc) ==
    <<IF fn \in FrontEnds THEN NameOf(Resolve(z_method, zsel).name)
      ELSE "none",
      IF fn \in {"pbub", "Rsbub"} \/ Specified(tc, pc) THEN "none"
      ELSE TcPcBranch(CmethodArg(fn, csel)),
      IF fn \in {"pbub", "Rsbub"} THEN NameOf(Resolve(pb_method, psel).name) ELSE "none">>

\* C11: every method selector of gas_z, PonZ2P, deltamp, gas_tc_pc, pbub and
\* Rsbub is accepted as the enumeration value and as the name in any letter
\* case: a call whose selectors name members does not end the process, and
\* the algorithms it selects are those the enumeration values select.
C11_SelectorsEitherForm ==
    (TpDone /\ NamesMember(z_method, tp.zsel) /\ NamesMember(c_method, tp.csel)
            /\ NamesMember(pb_method, tp.psel))
        => /\ tp.pc # "exit"
           /\ <<tp.zalg, tp.evaluated, tp.palg>>
                 = Selected(tp.fn, EnumForm(tp.zsel), EnumForm(tp.csel), EnumForm(tp.psel),
                            tp.tc, tp.pcrit)

\* C12: gas_tc_pc called with a method name that is not one of the two
\* correlations ends the process, whatever the other arguments, the tc and
\* pc overrides included.
C12_UnknownMethodIsFatal ==
    (tp.fn = "gas_tc_pc" /\ TpDone /\ tp.csel.type = "str"
        /\ StrUpper(tp.csel.name) \notin c_method)
        => tp.pc = "exit"

\* C13: gas_tc_pc called with tc > 0 and pc > 0 returns exactly (tc, pc) and
\* evaluates neither correlation, for every sg, composition and cmethod.
C13_OverridesBypass ==
    (tp.fn = "gas_tc_pc" /\ TpDone /\ tp.tc > 0 /\ tp.pcrit > 0)
        => (tp.pc = "returned" /\ tp.ret = <<tp.tc, tp.pcrit>> /\ tp.evaluated = "none")

\* C13 witness: a returned call with both overrides positive, impurities in
\* the gas and a cmethod no branch of lines 231-248 recognises
C13_Witness ==
    /\ tp.fn = "gas_tc_pc" /\ tp.pc = "returned" /\ tp.tc > 0 /\ tp.pcrit > 0
    /\ tp.comp.co2 > 0 /\ TcPcBranch(tp.cmethod) = "exit"

\* C14: in every gas_tc_pc call whose overrides are not both positive the
\* selected correlation is evaluated, and the returned tc is the override if
\* it is > 0 and the correlation's value otherwise; the same for pc.
C14_OverridePerValue ==
    (tp.fn = "gas_tc_pc" /\ TpDone /\ ~(tp.tc > 0 /\ tp.pcrit > 0)
        /\ TcPcBranch(tp.cmethod) # "exit")
        => /\ tp.pc = "returned"
           /\ tp.evaluated = TcPcBranch(tp.cmethod)
           /\ tp.ret = Override(Correlation(TcPcBranch(tp.cmethod), tp.sg, tp.comp),
                                tp.tc, tp.pcrit)

\* C15: when the Hall-Yarborough iteration of one pressure is unconverged
\* after 99 iterations, the next one raises the diagnostic and leaves the
\* loop without ending the call; the estimate of the last iterate is
\* appended for that pressure, the call goes on to the remaining pressures
\* and returns, and the result has one value per input pressure.
C15_HyKeepsLastIterate ==
    /\ [][(gz.pc = "while" /\ gz.zmethod = "HY" /\ gz.h.i = 99 /\ HyContinue(gz.h))
            => (gz'.pc = "while" /\ gz'.h.brk /\ gz'.h.i = 100)]_vars
    /\ [][(gz.pc = "while" /\ gz.zmethod = "HY" /\ gz.h.brk)
            => (/\ gz'.pc = "for" /\ gz'.k = gz.k + 1
                /\ Len(gz'.zout) = gz'.k
                /\ gz'.zout[gz'.k].v = HyValue(gz.h, gz.ps[gz'.k].v))]_vars
    /\ []((gz.pc = "while" /\ gz.zmethod = "HY" /\ gz.h.brk) => <>(gz.pc = "returned"))
    /\ []((gz.pc = "returned" /\ gz.zmethod = "HY")
            => (/\ gz.ret.kind = (IF gz.p.shape = "scalar" THEN "scalar" ELSE "seq")
                /\ Len(gz.ret.vals) = Len(gz.p.vals)))

\* C15 witness: the first of two pressures was left by break, its estimate
\* is in zout and the second pressure is still to be evaluated
C15_Witness ==
    /\ gz.zmethod = "HY" /\ gz.pc = "for" /\ gz.h.brk
    /\ gz.k = 1 /\ Len(gz.ps) = 2 /\ Len(gz.zout) = 1

\* C16: the DAK iteration of one pressure always ends, either converged
\* (|z2 - z| below 1e-4) or, with 100 iterations run without convergence, by
\* returning the sentinel; it neither ends the process nor raises.
C16_DakEndsConvergedOrSentinel ==
    /\ []((gz.zmethod = "DAK" /\ gz.pc = "while") => <>(gz.pc # "while"))
    /\ [][(gz.zmethod = "DAK" /\ gz.pc = "while" /\ gz'.pc # "while")
            => \/ /\ gz'.pc = "for"
                  /\ gz.d.fp # "nan" /\ Abs(gz.d.z2 - gz.d.z) * 10000 <= One
               \/ /\ gz'.pc = "returned" /\ gz'.ret = Sentinel
                  /\ gz'.d.ii > 100]_vars

\* The pressure column of the returned table
PressureColumn == [k \in 1..Len(mb.rows) |-> mb.rows[k].p]

\* C17: the pressure column of the table make_bot returns is strictly
\* increasing and contains pmin, pmax, the bubble point and pi, whether the
\* bubble point was supplied or derived.
C17_PressuresSortedAndComplete ==
    (op = "make_bot" /\ mb.pc = "returned")
        => /\ \A k \in 1..(Len(PressureColumn) - 1) : PressureColumn[k] < PressureColumn[k + 1]
           /\ {Pmin, mb.pmax, mb.pbi, mb.pi} \subseteq {PressureColumn[k] : k \in 1..Len(mb.rows)}

\* C18: the table make_bot returns has exactly nrows rows, wherever pb and pi
\* lie relative to pmin, pmax, each other and the grid.
C18_ExactlyNrows ==
    (op = "make_bot" /\ mb.pc = "returned") => Len(mb.rows) = mb.nrows

\* The Rs column above row k (the list rss when row k is computed)
RssBefore(k) == [j \in 1..(k - 1) |-> mb.rows[j].rs]

\* C19: in the returned table every row above the bubble point carries the
\* table's Rsb, and every row at or below it carries the value of Rsbub at
\* the row's pressure divided by the reconciliation factor rsb_frac.
C19_RsByRow ==
    (op = "make_bot" /\ mb.pc = "returned")
        => \A k \in 1..Len(mb.rows) :
              IF mb.rows[k].p > mb.pbi
              THEN mb.rows[k].rs = mb.rsb
              ELSE LET r == RsbubValue(mb.rows[k].p, RowMethod(RssBefore(k)))
                   IN  r.kind = "num" /\ mb.rows[k].rs = Quo(r.v, mb.rsb_frac)

\* C19 witness: a returned table of a reconciled pb and rsb (rsb_frac is not
\* 1) with rows below, at and above the bubble point
C19_Witness ==
    /\ op = "make_bot" /\ mb.pc = "returned" /\ mb.both /\ mb.rsb_frac # One
    /\ \E j, k, l \in 1..Len(mb.rows) :
          mb.rows[j].p < mb.pbi /\ mb.rows[k].p = mb.pbi /\ mb.rows[l].p > mb.pbi

\* C20: the table has a named column for pressure, for the solution gas
\* ratio, for the oil, gas and water formation volume factors, for the
\* viscosities, for the Z-factor and for the compressibilities.
C20_NamedColumns ==
    (op = "make_bot" /\ mb.pc = "returned")
        => \A q \in {"pressure", "solution gas ratio", "oil formation volume factor",
                     "gas formation volume factor", "water formation volume factor",
                     "oil viscosity", "gas viscosity", "water viscosity", "Z-factor",
                     "compressibility"} :
              \E k \in 1..Len(mb.columns) :
                 mb.columns[k].quantity = q /\ mb.columns[k].name # ""

\* Exactly one of pb and rsb was passed to make_bot as a positive value
OneSupplied == (mb.arg.pb > 0) # (mb.arg.rsb > 0)

\* C21: when exactly one of pb and rsb is supplied to make_bot the other is
\* the value of the VALMC correlation (pbub) or of its inverse (Rsbub) for
\* the supplied one, the supplied one is used unchanged, the reconciliation
\* loop is never entered and rsb_frac stays 1.
C21_OneSuppliedOtherDerived ==
    (op = "make_bot" /\ OneSupplied)
        => /\ mb.pc # "while" /\ mb.i = 0 /\ ~mb.both
           /\ mb.rsb_frac = One
           /\ mb.pc \in {"rows", "returned"}
                => IF mb.arg.pb > 0
                   THEN mb.pbi = mb.arg.pb /\ mb.rsb = RsbubValue(mb.arg.pb, "VALMC").v
                   ELSE mb.rsb = mb.arg.rsb /\ mb.pbi = pbub(Fin(mb.arg.rsb), "VALMC").v

\* C21 witnesses: a returned table for a supplied pb, whose derived rsb differs
\* from the argument, with rows at or below the bubble point
C21_Witness ==
    /\ op = "make_bot" /\ mb.pc = "returned" /\ mb.arg.pb > 0 /\ mb.arg.rsb <= 0
    /\ mb.rsb > 0 /\ \E k \in 1..Len(mb.rows) : mb.rows[k].p = mb.pbi

\* C22: in PonZ2P, OneonBg and gas_den the Z-factor is evaluated with the
\* critical properties of the cmethod the caller selected: the correlation
\* gas_tc_pc evaluates is the selected one, and the tc and pc it returns are
\* those of that correlation.
C22_SelectedCmethodUsed ==
    (tp.fn \in DropCmethod /\ tp.pc = "dispatched" /\ ~Specified(tp.tc, tp.pcrit))
        => /\ tp.evaluated = NameOf(EnumForm(tp.csel).name)
           /\ tp.ret = Override(Correlation(NameOf(EnumForm(tp.csel).name), tp.sg, tp.comp),
                                tp.tc, tp.pcrit)

\* C23: no operation keeps state between calls: a call with the arguments of
\* the caller's first call ends as the first call did and with the same result
\* (for make_bot: the same table, bubble point, rsb and scale factor), whether
\* it follows the first call directly or the interposed call ran in between.
C23_EqualArgsEqualResults ==
    (Repeated /\ CallOver) => Res = prev.res

\* A make_bot call with one of pb and rsb supplied returns its table a second
\* time after a call that computed a scale factor other than 1
C23_Witness ==
    /\ prev.n = 2 /\ Repeated
    /\ op = "make_bot" /\ mb.pc = "returned" /\ OneSupplied
    /\ Len(mb.rows) > 0

\* C24: the Hall-Yarborough solver starts at y = 0.001 and each iteration of
\* it is the Newton update with the analytic derivative,
\* y := y - f(y) / f'(y), made while |f| is above 1e-8.
C24_HyNewtonUpdate ==
    [][/\ ZElemStart /\ gz.zmethod = "HY" => gz'.h.y * 1000 = One
       /\ ZhyIterate /\ dfydy(gz.h.y) # 0
              => gz'.h.y = gz.h.y - Quo(gz.h.f, dfydy(gz.h.y))]_vars

\* Rsbub(pb, 'VALMC') has returned the iterate of its Newton loop: the loop
\* ended by its while test, and the iterate is a finite number
NewtonIterateReturned ==
    /\ op = "Rsbub" /\ rs.pc = "returned" /\ rs.pbmethod = "VALMC"
    /\ rs.n.pc = "while" /\ rs.n.i > 0
    /\ rs.n.rsb.fp = "fin" /\ rs.ret = Num(rs.n.rsb.v)

\* C25: when Rsbub with VALMC returns the Newton iterate, pbub of the returned
\* rsb is within 1e-5 psia of the target pb, because the convergence test
\* applies to the value returned: whenever the while test of line 1066 is
\* evaluated after a pass, the pbcalc it examines is pbub of the rsb that
\* line 1076 would return.
C25_ConvergenceTestOnReturned ==
    /\ NewtonIterateReturned
           => LET back == pbub(Fin(rs.ret.v), "VALMC")
              IN  back.fp = "fin" /\ Abs(rs.n.pb - back.v) * 100000 <= PsiaUnit
    /\ (op = "Rsbub" /\ rs.pbmethod = "VALMC" /\ rs.pc = "while" /\ rs.n.i > 0
           /\ rs.n.rsb.fp = "fin" /\ rs.n.rsb.v > 0)
           => rs.n.pbcalc = pbub(rs.n.rsb, "VALMC")

\* C26: in each iteration of bisect_solve, when the error at the current high
\* bound and the error at the midpoint have opposite signs, xmin is raised to
\* the midpoint and moved further toward xmax by averaging, so that the next
\* bracket is narrower than half the current one; otherwise xmax is lowered to
\* the midpoint.
C26_BracketUpdate ==
    [][/\ BisectIterHigher
              => /\ bis'.xmin = Div(MidPoint(bis) + bis.xmax, 2)
                 /\ bis'.xmax = bis.xmax
                 /\ 2 * (bis'.xmax - bis'.xmin) < bis.xmax - bis.xmin
       /\ BisectIterLower
              => bis'.xmax = MidPoint(bis) /\ bis'.xmin = bis.xmin]_vars

\* C27: every caller of the DAK Z-factor checks for the message of line 375
\* before it uses the Z result in arithmetic, so that an element that did not
\* converge never becomes an unhandled exception: PonZ2P_err, handed the
\* message for the pressure bisect_solve evaluates it at, does not raise.
C27_CallersCheckSentinel ==
    (/\ op = "PonZ2P" /\ bis.f = "PonZ2P_err" /\ bis.bound
     /\ GasZScalar(bis.args.zmethod, bis.mid_eval).kind = "str")
        => bis.pc # "raised" /\ pz.pc # "raised"

\* C28: within one make_bot call the bubble point of the table (pbi), rsb and
\* rsb_frac are fixed before the first pressure is evaluated and no row changes
\* them: every row is appended for Bo at the same bubble point and, at and
\* below it, with Rs divided by the same rsb_frac.  (The local pb that lines
\* 1470 and 1473 reassign is the pb viso is called with, min(p, pbi).)
C28_ReconciledStateFixed ==
    [][MakeBotRow
          => /\ mb'.pbi = mb.pbi /\ mb'.rsb = mb.rsb /\ mb'.rsb_frac = mb.rsb_frac
             /\ mb'.pc = "rows"
                   => LET row == mb'.rows[Len(mb'.rows)]
                      IN  /\ Len(mb'.rows) = Len(mb.rows) + 1
                          /\ row.bo_pb = mb'.rows[1].bo_pb
                          /\ row.pb = IF row.p > mb.pbi THEN mb.pbi ELSE row.p
                          /\ row.rs = IF row.p > mb.pbi THEN mb.rsb
                                      ELSE Quo(row.raw, mb.rsb_frac)]_vars

\* After a reconciliation that computed a scale factor other than 1, two rows
\* below the bubble point have been appended and the local pb is the pressure
\* of the second
C28_Witness ==
    /\ op = "make_bot" /\ mb.pc = "rows" /\ mb.both /\ mb.rsb_frac # One
    /\ Len(mb.rows) = 2 /\ mb.rows[2].p < mb.pbi
    /\ mb.pb = mb.rows[2].p

\* C29: for a caller's bracket across which f changes sign, at the start of
\* every iteration of bisect_solve the bracket [xmin, xmax] lies inside the
\* caller's bracket and f changes sign across it; and a value bisect_solve
\* returns lies inside the caller's bracket.
C29_BracketInvariant ==
    /\ (bis.pc = "loop" /\ SignChange(bis) /\ BisectContinue(bis))
          => /\ bis.xmin0 <= bis.xmin /\ bis.xmin <= bis.xmax /\ bis.xmax <= bis.xmax0
             /\ ErrFn(bis.f, bis.args, bis.xmin) * ErrFn(bis.f, bis.args, bis.xmax) < 0
             /\ bis.err_lo = ErrFn(bis.f, bis.args, bis.xmin)
             /\ bis.err_hi = ErrFn(bis.f, bis.args, bis.xmax)
    /\ bis.pc = "returned"
          => bis.xmin0 <= bis.mid_val /\ bis.mid_val <= bis.xmax0

\* A value returned after both bounds of a sign-changing bracket have moved
C29_Witness ==
    /\ bis.pc = "returned" /\ SignChange(bis)
    /\ bis.xmin > bis.xmin0 /\ bis.xmax < bis.xmax0 /\ bis.iternum >= 3

\* C30: every row at or below the bubble point is evaluated with the VELAR
\* inverse when the Rs of the row before it is at most 10 scf/stb, and with the
\* VALMC inverse otherwise.
C30_MethodByPrecedingRs ==
    (op = "make_bot" /\ mb.pc \in {"rows", "returned"})
        => \A k \in 1..Len(mb.rows) :
              mb.rows[k].p <= mb.pbi
                  => mb.rows[k].method =
                         IF k > 1 /\ mb.rows[k - 1].rs <= 10 * ScfUnit
                         THEN "VELAR" ELSE "VALMC"

============================================================================
